---- MODULE Spec2Model ----
(***************************************************************************)
(* Firebase-style realtime database emulator on top of a document store.   *)
(* The model covers the v2 write engine (create / replace / merge /        *)
(* delete), the query evaluator (validation, ordering, range and equality  *)
(* filters, limits), the index registry, and the document-store semantics  *)
(* the handlers rely on (find_one, find/sort/limit, update_one with        *)
(* $set/$unset and upsert, insert_one/insert_many, unique index, drop).    *)
(***************************************************************************)
EXTENDS Integers, Sequences, FiniteSets, TLC

VARIABLES db, rules, last, proc, snap, served

vars == <<db, rules, last, proc, snap, served>>

-----------------------------------------------------------------------------
(* Bounds of the model.                                                    *)

\* requests served in one run of the model
MaxOps == 3

-----------------------------------------------------------------------------
(* JSON values, tagged by shape.                                           *)

Null == [t |-> "null"]
NoField == [t |-> "nofield"]
Err == [t |-> "err"]
Num(n) == [t |-> "num", n |-> n]
Bool(b) == [t |-> "bool", b |-> b]
Str(s) == [t |-> "str", s |-> s]
Dict(m) == [t |-> "dict", m |-> m]
List(l) == [t |-> "list", l |-> l]

EmptyMap == [k \in {} |-> Null]

IsDict(v) == v.t = "dict"
IsList(v) == v.t = "list"

MapPut(m, k, v) == [x \in (DOMAIN m) \cup {k} |-> IF x = k THEN v ELSE m[x]]
MapDel(m, k) == [x \in (DOMAIN m) \ {k} |-> m[x]]
One(k, v) == Dict([x \in {k} |-> v])

\* the buckets and the ids uuid4 generates, in the order they are handed out
Buckets == {"u"}
GenIds == <<"n1", "n2", "n3", "n4", "n5", "n6">>

\* mapping keys in the order a payload lists them (JSON object order)
AllKeys == <<"0", "1", "a", "b", "c", "a/b", "c/b", "n1", "n2", "n3", "n4", "n5", "n6">>

\* str.split("/") on the keys of the model
Split(k) == IF k = "a/b" THEN <<"a", "b">> ELSE IF k = "c/b" THEN <<"c", "b">> ELSE <<k>>
HasSlash(k) == Len(Split(k)) > 1

\* str(i) for enumerate() indexes, and int(k) for numeric path segments
IndexStr == <<"0", "1">>
IsDigit(k) == k \in {"0", "1"}
IntOf(k) == IF k = "0" THEN 0 ELSE 1

KeySeq(m) == SelectSeq(AllKeys, LAMBDA k : k \in DOMAIN m)

-----------------------------------------------------------------------------
(* Document-store field paths: $exists, $set, $unset on dotted keys.       *)

\* mutant of Wrap: the loop over the remaining path segments stops after one
WrapOneLevel(segs, v) == IF segs = <<>> THEN v ELSE One(Head(segs), v)

RECURSIVE Wrap(_, _)
\* for key in path_components[:1:-1]: data = {key: data}, i.e. {s1: {s2: ... v}}
Wrap(segs, v) ==
    IF segs = <<>> THEN v ELSE One(Head(segs), Wrap(Tail(segs), v))

RECURSIVE MExists(_, _)
\* {"_fm_val.<segs>": {"$exists": True}} on the value of _fm_val
MExists(v, segs) ==
    IF v = NoField THEN FALSE
    ELSE IF segs = <<>> THEN TRUE
    ELSE IF IsDict(v)
         THEN Head(segs) \in DOMAIN v.m /\ MExists(v.m[Head(segs)], Tail(segs))
    ELSE IF IsList(v)
         THEN \/ /\ IsDigit(Head(segs))
                 /\ IntOf(Head(segs)) < Len(v.l)
                 /\ MExists(v.l[IntOf(Head(segs)) + 1], Tail(segs))
              \/ \E i \in 1..Len(v.l) : IsDict(v.l[i]) /\ MExists(v.l[i], segs)
    ELSE FALSE

RECURSIVE MSet(_, _, _)
\* {"$set": {"_fm_val.<segs>": x}}; Err when the store rejects the path
MSet(v, segs, x) ==
    IF segs = <<>> THEN x
    ELSE IF v = NoField THEN Wrap(segs, x)
    ELSE IF IsDict(v)
         THEN LET k == Head(segs)
                  sub == IF k \in DOMAIN v.m
                         THEN MSet(v.m[k], Tail(segs), x)
                         ELSE Wrap(Tail(segs), x)
              IN IF sub = Err THEN Err ELSE Dict(MapPut(v.m, k, sub))
    ELSE IF IsList(v) /\ IsDigit(Head(segs))
         THEN LET i == IntOf(Head(segs))
                  padded == [j \in 1..(IF i < Len(v.l) THEN Len(v.l) ELSE i + 1) |->
                               IF j <= Len(v.l) THEN v.l[j] ELSE Null]
                  sub == IF i < Len(v.l)
                         THEN MSet(v.l[i + 1], Tail(segs), x)
                         ELSE Wrap(Tail(segs), x)
              IN IF sub = Err THEN Err
                 ELSE List([padded EXCEPT ![i + 1] = sub])
    ELSE Err

RECURSIVE MUnset(_, _)
\* {"$unset": {"_fm_val.<segs>": ""}}
MUnset(v, segs) ==
    IF segs = <<>> THEN NoField
    ELSE IF v = NoField THEN v
    ELSE IF IsDict(v)
         THEN LET k == Head(segs)
              IN IF k \notin DOMAIN v.m THEN v
                 ELSE IF Len(segs) = 1 THEN Dict(MapDel(v.m, k))
                 ELSE Dict(MapPut(v.m, k, MUnset(v.m[k], Tail(segs))))
    ELSE IF IsList(v) /\ IsDigit(Head(segs)) /\ IntOf(Head(segs)) < Len(v.l)
         THEN LET i == IntOf(Head(segs)) + 1
              IN IF Len(segs) = 1 THEN List([v.l EXCEPT ![i] = Null])
                 ELSE List([v.l EXCEPT ![i] = MUnset(v.l[i], Tail(segs))])
    ELSE v

RECURSIVE PyGet(_, _)
\* existing_data[int(k)] for a list, existing_data[k] otherwise; Err when it raises
PyGet(v, segs) ==
    IF segs = <<>> THEN v
    ELSE IF IsList(v)
         THEN IF IsDigit(Head(segs)) /\ IntOf(Head(segs)) < Len(v.l)
              THEN PyGet(v.l[IntOf(Head(segs)) + 1], Tail(segs))
              ELSE Err
    ELSE IF IsDict(v) /\ Head(segs) \in DOMAIN v.m
         THEN PyGet(v.m[Head(segs)], Tail(segs))
    ELSE Err


RECURSIVE PySetPath(_, _, _)
\* current_dict.setdefault(k, {}) along keys[:-1], then current_dict[keys[-1]] = value
PySetPath(m, segs, v) ==
    IF Len(segs) = 1 THEN Dict(MapPut(m, Head(segs), v))
    ELSE LET k == Head(segs)
             cur == IF k \in DOMAIN m THEN m[k] ELSE Dict(EmptyMap)
             sub == IF IsDict(cur) THEN PySetPath(cur.m, Tail(segs), v) ELSE Err
         IN IF sub = Err THEN Err ELSE Dict(MapPut(m, k, sub))

RECURSIVE UnwrapFrom(_, _, _)
UnwrapFrom(data, ks, acc) ==
    IF ks = <<>> \/ acc = Err THEN acc
    ELSE UnwrapFrom(data, Tail(ks), PySetPath(acc.m, Split(Head(ks)), data.m[Head(ks)]))

\* utils.unwrap_path_to_dict
unwrap_path_to_dict(data) == UnwrapFrom(data, KeySeq(data.m), Dict(EmptyMap))

-----------------------------------------------------------------------------
(* The document store: a collection is [exists, uniq, docs]; docs are kept *)
(* in natural (insertion) order; uniq is the unique index on _fm_id.       *)

NoColl == [exists |-> FALSE, uniq |-> FALSE, docs |-> <<>>]
NoKey == "$none"

Doc(oid, fmid, val) == [_id |-> oid, _fm_id |-> fmid, _fm_val |-> val]

RECURSIVE Least(_, _)
Least(used, n) == IF n \notin used THEN n ELSE Least(used, n + 1)

\* a fresh ObjectId: one no document holds and no running request remembers
NewOid(d, held) ==
    Least(held \cup UNION {{d[b].docs[i]._id : i \in DOMAIN d[b].docs} : b \in DOMAIN d}, 0)

\* find_one: the first document, in natural order, among those that match (0: none)
FirstIdx(hits) ==
    IF hits = {} THEN 0 ELSE CHOOSE i \in hits : \A j \in hits : i <= j

\* find_one({"_fm_id": fmid, "_fm_val.<segs>": {"$exists": True}})
FindByKey(docs, fmid, segs) ==
    FirstIdx({i \in DOMAIN docs : docs[i]._fm_id = fmid /\ MExists(docs[i]._fm_val, segs)})

\* find_one({"_id": oid, "_fm_id": fmid}); fmid = NoKey when the filter is {"_id": oid}
FindByOid(docs, oid, fmid) ==
    FirstIdx({i \in DOMAIN docs : docs[i]._id = oid /\ (fmid = NoKey \/ docs[i]._fm_id = fmid)})

\* find_one / update_one filter {"_fm_id": fmid}
FindByFmId(docs, fmid) == FirstIdx({i \in DOMAIN docs : docs[i]._fm_id = fmid})

HasDupKeys(docs) ==
    \E i, j \in DOMAIN docs : i < j /\ docs[i]._fm_id = docs[j]._fm_id

\* collection.drop()
DropNothing(c) == c

Drop(c) == NoColl

\* collection.create_index("_fm_id", unique=True); ok = FALSE when it raises
CreateIndex(c) ==
    IF HasDupKeys(c.docs) THEN [ok |-> FALSE, c |-> [c EXCEPT !.exists = TRUE]]
    ELSE [ok |-> TRUE, c |-> [c EXCEPT !.exists = TRUE, !.uniq = TRUE]]

\* collection.insert_one(doc); DuplicateKeyError under the unique index
InsertOne(c, doc) ==
    IF c.uniq /\ FindByFmId(c.docs, doc._fm_id) > 0
    THEN [ok |-> FALSE, c |-> c]
    ELSE [ok |-> TRUE, c |-> [c EXCEPT !.exists = TRUE, !.docs = Append(c.docs, doc)]]

Prefix(p, q) == Len(p) <= Len(q) /\ SubSeq(q, 1, Len(p)) = p

\* two $set paths of one update may not contain one another
Conflict(sets) ==
    \E i, j \in DOMAIN sets : i # j /\ Prefix(sets[i][1], sets[j][1])

RECURSIVE ApplySets(_, _)
\* apply each <<segs, value>> of a $set document to the value of _fm_val
ApplySets(v, sets) ==
    IF sets = <<>> \/ v = Err THEN v
    ELSE ApplySets(MSet(v, Head(sets)[1], Head(sets)[2]), Tail(sets))

\* update_one(filter, {"$set": sets}, upsert=True) once the filter picked docs[i]
\* (i = 0: no match, the upsert inserts the filter's equality fields plus the $set)
UpdateSet(c, i, oid, fmid, sets) ==
    IF Conflict(sets) THEN [ok |-> FALSE, c |-> c]
    ELSE IF i > 0
    THEN LET nv == ApplySets(c.docs[i]._fm_val, sets)
         IN IF nv = Err THEN [ok |-> FALSE, c |-> c]
            ELSE [ok |-> TRUE, c |-> [c EXCEPT !.docs[i]._fm_val = nv]]
    ELSE InsertOne(c, Doc(oid, fmid, ApplySets(NoField, sets)))

\* update_one({"_id": oid, "_fm_id": fmid}, {"$unset": {"_fm_val.<segs>": ""}})
UpdateUnset(c, i, segs) ==
    IF i = 0 THEN c ELSE [c EXCEPT !.docs[i]._fm_val = MUnset(c.docs[i]._fm_val, segs)]

\* delete_one({"_id": oid})
DeleteOne(c, oid) == [c EXCEPT !.docs = SelectSeq(c.docs, LAMBDA x : x._id # oid)]


-----------------------------------------------------------------------------
(* Requests.  A request in flight is a record st: its operation, parsed    *)
(* path (bucket first), payload, the store call it is about to make (pc),  *)
(* the _id it remembers, the generated id (name), the loop index i and its *)
(* outcome.  Each step operator performs ONE awaited store call, with the  *)
(* local computation that follows it, and returns [db, st].                *)

Idle == [op |-> "none", path |-> <<>>, data |-> Null, pc |-> "idle",
         oid |-> -1, name |-> NoKey, i |-> 0, out |-> "none", val |-> Null]

Begin(op, path, data, name) ==
    [Idle EXCEPT !.op = op, !.path = path, !.data = data, !.pc = "start",
                 !.name = name, !.i = 1]

Finish(st, out) == [st EXCEPT !.pc = "done", !.out = out]
Goto(st, pc) == [st EXCEPT !.pc = pc]
Res(d, st) == [db |-> d, st |-> st]

\* path_components[2:] and the key whose existence the write handlers test:
\* parent_key = nested_key when path_components[2:-1] is not empty, "_fm_val" otherwise
child_components(path) == SubSeq(path, 3, Len(path))
parent_key(path) ==
    IF Len(child_components(path)) > 1 THEN child_components(path) ELSE <<>>

\* mutant of FindExisting: the record is never found
FindExistingNever(d, st) == Res(d, Goto(st, "insert_one"))

\* existing_data = await collection.find_one({"_fm_id": _fm_id, parent_key: {"$exists": True}})
FindExisting(d, st) ==
    LET c == d[st.path[1]]
        i == FindByKey(c.docs, st.path[2], parent_key(st.path))
    IN IF i > 0
       THEN Res(d, [st EXCEPT !.pc = "update_one", !.oid = c.docs[i]._id])
       ELSE Res(d, Goto(st, "insert_one"))

\* new_data = await collection.insert_one({"_fm_id": fmid, "_fm_val": val})
InsertStep(d, st, held, fmid, val) ==
    LET b == st.path[1]
        oid == NewOid(d, held)
        r == InsertOne(d[b], Doc(oid, fmid, val))
    IN IF r.ok
       THEN Res([d EXCEPT ![b] = r.c], [st EXCEPT !.pc = "verify", !.oid = oid])
       ELSE Res(d, Finish(st, "Exception"))

\* valid = await collection.find_one({"_id": inserted_id}, {"_id": 0})
VerifyStep(d, st) ==
    IF FindByOid(d[st.path[1]].docs, st.oid, NoKey) > 0
    THEN Res(d, Finish(st, "ok"))
    ELSE Res(d, Finish(st, "StorageFailure"))

\* update_one(filter, {"$set": sets}, upsert=True) of the write handlers
UpdateStep(d, st, fmid, sets) ==
    LET b == st.path[1]
        r == UpdateSet(d[b], FindByOid(d[b].docs, st.oid, fmid), st.oid, fmid, sets)
    IN IF r.ok
       THEN Res([d EXCEPT ![b] = r.c], Finish(st, "ok"))
       ELSE Res(d, Finish(st, "Exception"))

-----------------------------------------------------------------------------
(* PUT /{path}.json                                                        *)

\* docs of a bucket-level replace: enumerate(list) or dict.items()
BucketDocs(data) ==
    IF IsList(data)
    THEN [i \in 1..Len(data.l) |-> <<IndexStr[i], data.l[i]>>]
    ELSE [i \in 1..Len(KeySeq(data.m)) |-> <<KeySeq(data.m)[i], data.m[KeySeq(data.m)[i]]>>]

RECURSIVE InsertMany(_, _, _, _)
\* insert_many(docs, ordered=False): every document is tried, errors are collected
InsertMany(d, b, pairs, held) ==
    IF pairs = <<>> THEN [ok |-> TRUE, db |-> d]
    ELSE LET r == InsertOne(d[b], Doc(NewOid(d, held), Head(pairs)[1], Head(pairs)[2]))
             rest == InsertMany([d EXCEPT ![b] = r.c], b, Tail(pairs), held)
         IN [ok |-> r.ok /\ rest.ok, db |-> rest.db]

\* mutant of PutAccepts: the list branch of the type dispatch is missing
PutAcceptsDictOnly(data) == IsDict(data)

\* type(data) is list / type(data) is dict, anything else is rejected with 422
PutAccepts(data) == IsList(data) \/ IsDict(data)

put_data_v2(d, st, held) ==
    LET b == st.path[1]
    IN CASE st.pc = "start" ->
              IF st.data = Null THEN Res(d, Finish(st, "InvalidPayload"))
              ELSE IF Len(st.path) > 1 THEN FindExisting(d, st)
              ELSE Res([d EXCEPT ![b] = Drop(d[b])], Goto(st, "create_index"))
         [] st.pc = "update_one" ->
              UpdateStep(d, st, st.path[2], << <<child_components(st.path), st.data>> >>)
         [] st.pc = "insert_one" ->
              InsertStep(d, st, held, st.path[2], Wrap(child_components(st.path), st.data))
         [] st.pc = "verify" -> VerifyStep(d, st)
         [] st.pc = "create_index" ->
              LET r == CreateIndex(d[b])
                  d2 == [d EXCEPT ![b] = r.c]
              IN IF ~r.ok THEN Res(d2, Finish(st, "Exception"))
                 ELSE IF ~PutAccepts(st.data) THEN Res(d2, Finish(st, "InvalidPayload"))
                 ELSE Res(d2, Goto(st, "insert_many"))
         [] st.pc = "insert_many" ->
              LET pairs == BucketDocs(st.data)
                  r == InsertMany(d, b, pairs, held)
              IN IF pairs = <<>> THEN Res(d, Finish(st, "Exception"))
                 ELSE Res(r.db, Finish(st, IF r.ok THEN "ok" ELSE "Exception"))


-----------------------------------------------------------------------------
(* PATCH /{path}.json                                                      *)

\* setter = {f"{nested_key}.{k.replace('/','.')}": v for k, v in data.items()}
PatchSetter(path, data) ==
    [i \in 1..Len(KeySeq(data.m)) |->
        <<child_components(path) \o Split(KeySeq(data.m)[i]), data.m[KeySeq(data.m)[i]]>>]

\* bucket level, some key holds "/": the $set document built for key k
SlashSetter(k, v) ==
    IF Len(Split(k)) > 1 THEN << <<Tail(Split(k)), v>> >>
    ELSE IF IsDict(v) THEN [i \in 1..Len(KeySeq(v.m)) |-> << <<KeySeq(v.m)[i]>>, v.m[KeySeq(v.m)[i]] >>]
    ELSE << <<<<>>, v>> >>

\* bucket level, no key holds "/": {"_fm_val": unwrap_path_to_dict(v) if type(v) is dict else v}
PlainValue(v) == IF IsDict(v) THEN unwrap_path_to_dict(v) ELSE v

PathInKey(data) == \E k \in DOMAIN data.m : HasSlash(k)

\* one update_one({"_fm_id": _fm_id}, {"$set": setter}, upsert=True) of the bucket-level loops
PatchBucketStep(d, st, held) ==
    LET b == st.path[1]
        ks == KeySeq(st.data.m)
        k == ks[st.i]
        v == st.data.m[k]
        fmid == Head(Split(k))
        sets == IF PathInKey(st.data) THEN SlashSetter(k, v) ELSE << <<<<>>, PlainValue(v)>> >>
        r == UpdateSet(d[b], FindByFmId(d[b].docs, fmid), NewOid(d, held), fmid, sets)
    IN IF ~r.ok THEN Res(d, Finish(st, "Exception"))
       ELSE IF st.i = Len(ks) THEN Res([d EXCEPT ![b] = r.c], Finish(st, "ok"))
       ELSE Res([d EXCEPT ![b] = r.c], [st EXCEPT !.pc = "update_many", !.i = st.i + 1])

update_data_v2(d, st, held) ==
    CASE st.pc = "start" ->
           IF ~IsDict(st.data) THEN Res(d, Finish(st, "InvalidPayload"))
           ELSE IF Len(st.path) > 1 THEN FindExisting(d, st)
           ELSE IF DOMAIN st.data.m = {} THEN Res(d, Finish(st, "ok"))
           ELSE IF ~PathInKey(st.data) /\ \E k \in DOMAIN st.data.m : PlainValue(st.data.m[k]) = Err
                THEN Res(d, Finish(st, "Exception"))
           ELSE PatchBucketStep(d, st, held)
      [] st.pc = "update_one" -> UpdateStep(d, st, NoKey, PatchSetter(st.path, st.data))
      [] st.pc = "insert_one" ->
           LET data == unwrap_path_to_dict(Wrap(child_components(st.path), st.data))
           IN IF data = Err THEN Res(d, Finish(st, "Exception"))
              ELSE InsertStep(d, st, held, st.path[2], data)
      [] st.pc = "verify" -> VerifyStep(d, st)
      [] st.pc = "update_many" -> PatchBucketStep(d, st, held)

-----------------------------------------------------------------------------
(* POST /{path}.json                                                       *)

post_data_v2(d, st, held) ==
    LET b == st.path[1]
    IN CASE st.pc = "start" ->
              IF st.data = Null THEN Res(d, Finish(st, "ok"))
              ELSE IF Len(st.path) > 1 THEN FindExisting(d, st)
              ELSE Res([d EXCEPT ![b] = CreateIndex(d[b]).c], Goto(st, "insert_one"))
         [] st.pc = "update_one" ->
              UpdateStep(d, st, st.path[2],
                         << <<Append(child_components(st.path), st.name), st.data>> >>)
         [] st.pc = "insert_one" ->
              IF Len(st.path) > 1
              THEN InsertStep(d, st, held, st.name, Wrap(child_components(st.path), st.data))
              ELSE InsertStep(d, st, held, st.name, st.data)
         [] st.pc = "verify" -> VerifyStep(d, st)

-----------------------------------------------------------------------------
(* DELETE /{path}.json; st.out carries the handler's `valid` until it ends  *)

Valid(st) == IF st.out = "ok" THEN "ok" ELSE "StorageFailure"

delete_data_v2(d, st, held) ==
    LET b == st.path[1]
        c == d[b]
        segs == child_components(st.path)
    IN CASE st.pc = "start" ->
              IF ~c.exists THEN Res(d, Finish(st, "ok"))
              ELSE IF Len(st.path) > 1 THEN Res(d, Goto(st, "find_one"))
              ELSE Res(d, Goto(st, "drop_bucket"))
         [] st.pc = "find_one" ->
              LET i == FindByKey(c.docs, st.path[2], segs)
              IN IF i > 0 THEN Res(d, [st EXCEPT !.pc = "unset", !.oid = c.docs[i]._id])
                 ELSE Res(d, Finish(st, "StorageFailure"))
         [] st.pc = "unset" ->
              LET i == FindByOid(c.docs, st.oid, st.path[2])
              IN Res([d EXCEPT ![b] = UpdateUnset(c, i, segs)],
                     [st EXCEPT !.pc = "confirm", !.out = IF i > 0 THEN "ok" ELSE "none"])
         [] st.pc = "confirm" ->
              LET i == FindByOid(c.docs, st.oid, st.path[2])
              IN IF i > 0 /\ c.docs[i]._fm_val = NoField
                 THEN Res(d, Goto(st, "delete_one"))
                 ELSE Res(d, Goto(st, "count"))
         [] st.pc = "delete_one" ->
              Res([d EXCEPT ![b] = DeleteOne(c, st.oid)], Goto(st, "count"))
         [] st.pc = "count" ->
              IF Len(c.docs) = 0 THEN Res(d, Goto(st, "drop"))
              ELSE Res(d, Finish(st, Valid(st)))
         [] st.pc = "drop" ->
              Res([d EXCEPT ![b] = Drop(c)], Finish(st, Valid(st)))
         [] st.pc = "drop_bucket" ->
              Res([d EXCEPT ![b] = Drop(c)], Finish(st, "ok"))

-----------------------------------------------------------------------------
(* GET /{path}.json with no query parameter                                *)

\* result[doc["_fm_id"]] = doc["_fm_val"] over the documents sorted by _fm_id
\* (equal ids keep their natural order, so the last one wins)
Listing(docs) ==
    LET ids == {docs[i]._fm_id : i \in DOMAIN docs}
        lastOf(k) == CHOOSE i \in DOMAIN docs :
                        /\ docs[i]._fm_id = k
                        /\ \A j \in DOMAIN docs : docs[j]._fm_id = k => j <= i
    IN [k \in ids |-> docs[lastOf(k)]._fm_val]

\* [out, val]: val is the response body (Null for Python's None)
query_data_v2(d, path) ==
    LET c == d[path[1]]
    IN IF Len(path) > 1
       THEN LET i == FindByKey(c.docs, path[2], child_components(path))
                v == PyGet(c.docs[i]._fm_val, child_components(path))
            IN IF i = 0 THEN [out |-> "ok", val |-> Null]
               ELSE IF v = Err THEN [out |-> "Exception", val |-> Null]
               ELSE [out |-> "ok", val |-> v]
       ELSE IF \E i \in DOMAIN c.docs : c.docs[i]._fm_id = NoKey \/ c.docs[i]._fm_val = NoField
            THEN [out |-> "Exception", val |-> Null]
            ELSE [out |-> "ok", val |-> Dict(Listing(c.docs))]


-----------------------------------------------------------------------------
(* Strings as sequences of code points, for Python's and the store's       *)
(* comparisons (<=, in, str.startswith) on keys, bounds and index names.   *)

Code(s) ==
    CASE s = "0" -> <<48>>  [] s = "1" -> <<49>>
      [] s = "a" -> <<97>>  [] s = "b" -> <<98>>  [] s = "c" -> <<99>>
      [] s = "u" -> <<117>> [] s = "v" -> <<118>>
      [] s = "a/b" -> <<97, 47, 98>>
      [] s = "n1" -> <<110, 49>> [] s = "n2" -> <<110, 50>> [] s = "n3" -> <<110, 51>>
      [] s = "n4" -> <<110, 52>> [] s = "n5" -> <<110, 53>> [] s = "n6" -> <<110, 54>>
      [] s = ".value" -> <<46, 118, 97, 108, 117, 101>>
      [] s = "" -> <<>>

RECURSIVE LexLess(_, _)
\* x < y on strings (and on the sort tokens below): lexicographic on code points
LexLess(x, y) ==
    IF y = <<>> THEN FALSE
    ELSE IF x = <<>> THEN TRUE
    ELSE IF Head(x) # Head(y) THEN Head(x) < Head(y)
    ELSE LexLess(Tail(x), Tail(y))

LexLeq(x, y) == x = y \/ LexLess(x, y)

\* Python's `needle in hay` on two strings
Substring(needle, hay) ==
    \E i \in 0..(Len(hay) - Len(needle)) : SubSeq(hay, i + 1, i + Len(needle)) = needle

RECURSIVE Join(_, _)
\* ", ".join(parts) on code points
Join(parts, i) ==
    IF i > Len(parts) THEN <<>>
    ELSE IF i = Len(parts) THEN parts[i]
    ELSE parts[i] \o <<44, 32>> \o Join(parts, i + 1)

RECURSIVE PyStr(_)
\* str(v): "1", "10", "True", "None", "b", "{'b': 2}", "[1, 2]"
PyStr(v) ==
    CASE v.t = "num" -> IF v.n < 10 THEN <<48 + v.n>>
                        ELSE <<48 + (v.n \div 10), 48 + (v.n % 10)>>
      [] v.t = "bool" -> IF v.b THEN <<84, 114, 117, 101>> ELSE <<70, 97, 108, 115, 101>>
      [] v.t = "str" -> Code(v.s)
      [] v.t = "null" -> <<78, 111, 110, 101>>
      [] v.t = "dict" ->
           <<123>> \o Join([i \in 1..Len(KeySeq(v.m)) |->
                             <<39>> \o Code(KeySeq(v.m)[i]) \o <<39, 58, 32>>
                                  \o PyStr(v.m[KeySeq(v.m)[i]])], 1) \o <<125>>
      [] v.t = "list" -> <<91>> \o Join([i \in 1..Len(v.l) |-> PyStr(v.l[i])], 1) \o <<93>>

\* bool(p) of a query parameter: None, 0 and "" are false
PyTruthy(p) == p # Null /\ p # Num(0) /\ p # Str("")

\* the indexes of toks in ascending (descending) order of token; equal tokens keep
\* their order in toks (Python's sorted is stable; the store returns ties in natural order)
Before(toks, j, i, desc) ==
    IF toks[j] = toks[i] THEN j < i
    ELSE IF desc THEN LexLess(toks[i], toks[j]) ELSE LexLess(toks[j], toks[i])

Sorted(toks, desc) ==
    [p \in 1..Len(toks) |->
        CHOOSE i \in DOMAIN toks :
            Cardinality({j \in DOMAIN toks : Before(toks, j, i, desc)}) = p - 1]

-----------------------------------------------------------------------------
(* The index registry: the documents {path, indexOn} of __fm_rules__.      *)

RootScope == <<"__root__">>

\* the path argument left unspecified (None), and `if path is None: path = "__root__"`
NoScope == <<>>
ScopeArg(path) == IF path = NoScope THEN RootScope ELSE path

Rule(path, index_on) == [path |-> path, indexOn |-> index_on]

FindRule(rl, path) == FirstIdx({i \in DOMAIN rl : rl[i].path = path})

\* utils.check_index: the indexOn of the first rule of the path, None without one
check_index(rl, path) ==
    LET i == FindRule(rl, ScopeArg(path))
    IN IF i > 0 THEN rl[i].indexOn ELSE Null

\* Python's `name in index_`: substring of a str, element of a list, key of a dict
InIndex(name, index_) ==
    CASE index_.t = "str" -> Substring(Code(name), Code(index_.s))
      [] index_.t = "list" -> \E i \in DOMAIN index_.l : index_.l[i] = Str(name)
      [] index_.t = "dict" -> name \in DOMAIN index_.m

\* index_ is None or name not in index_
IndexMissing(rl, path, name) ==
    check_index(rl, path) = Null \/ ~InIndex(name, check_index(rl, path))

\* PUT /set-index: update the first rule of the path, insert one otherwise
set_index(rl, path, index_on) ==
    LET i == FindRule(rl, ScopeArg(path))
    IN IF i > 0
       THEN [rl EXCEPT ![i].indexOn = index_on]
       ELSE Append(rl, Rule(ScopeArg(path), index_on))

\* DELETE /delete-index: [out, rules]; HTTP 204 is raised when the path has no rule
delete_index(rl, path) ==
    LET i == FindRule(rl, ScopeArg(path))
    IN IF i > 0
       THEN [out |-> "ok",
             rules |-> [k \in 1..(Len(rl) - 1) |-> IF k < i THEN rl[k] ELSE rl[k + 1]]]
       ELSE [out |-> "NoContent", rules |-> rl]

\* DELETE /.json: every collection is dropped, __fm_rules__ included
delete_data_root_v2(d, rl) == [db |-> [b \in DOMAIN d |-> Drop(d[b])], rules |-> <<>>]

-----------------------------------------------------------------------------
(* Query parameters, their validation, and the store's comparisons.        *)

\* the QuerySpec with nothing set; orderBy is NoKey, "$key", "$value" or a field name
NoParams == [orderBy |-> NoKey, startAt |-> Null, endAt |-> Null, equalTo |-> Null,
             limitToFirst |-> Null, limitToLast |-> Null]

\* mutant of InvalidQuery: only the orderBy requirement is checked
InvalidQueryOrderByOnly(q) ==
    /\ \/ q.limitToFirst # Null \/ q.limitToLast # Null \/ q.equalTo # Null
       \/ (q.startAt # Null /\ q.endAt # Null)
    /\ q.orderBy = NoKey

\* the parameter validation at the head of both query handlers:
\* if (limitToFirst or limitToLast or equalTo is set, or startAt and endAt are both set):
\*     400 when orderBy is None; 400 when limitToFirst and limitToLast are both set
InvalidQuery(q) ==
    /\ \/ q.limitToFirst # Null \/ q.limitToLast # Null \/ q.equalTo # Null
       \/ (q.startAt # Null /\ q.endAt # Null)
    /\ \/ q.orderBy = NoKey
       \/ (q.limitToFirst # Null /\ q.limitToLast # Null)

\* mutant of BadKeyBounds: only startAt is type-checked
BadKeyBoundsStartOnly(q) == q.startAt # Null /\ q.startAt.t = "num"

\* not isinstance(startAt, (str, NoneType)) or not isinstance(endAt, (str, NoneType))
BadKeyBounds(q) ==
    /\ q.startAt # Null \/ q.endAt # Null
    /\ q.startAt.t = "num" \/ q.endAt.t = "num"

\* {"$gte": p} / {"$lte": p} on one value: only values of p's type compare
Gte(v, p) ==
    /\ v.t = p.t
    /\ IF p.t = "num" THEN v.n >= p.n ELSE LexLeq(Code(p.s), Code(v.s))
Lte(v, p) ==
    /\ v.t = p.t
    /\ IF p.t = "num" THEN v.n <= p.n ELSE LexLeq(Code(v.s), Code(p.s))

\* mutant of InRange: the bounds themselves are left out
InRangeExclusive(v, lo, hi) ==
    /\ lo = Null \/ (Gte(v, lo) /\ v # lo)
    /\ hi = Null \/ (Lte(v, hi) /\ v # hi)

\* {field: {"$gte": lo, "$lte": hi}}; an array matches through its elements
InRange(v, lo, hi) ==
    /\ lo = Null \/ Gte(v, lo) \/ (IsList(v) /\ \E i \in DOMAIN v.l : Gte(v.l[i], lo))
    /\ hi = Null \/ Lte(v, hi) \/ (IsList(v) /\ \E i \in DOMAIN v.l : Lte(v.l[i], hi))

\* {field: p}: the value, or an element of the array, equals p
EqMatch(v, p) == v = p \/ (IsList(v) /\ \E i \in DOMAIN v.l : v.l[i] = p)

\* BSON type order of the values of the model: null < number < string < object < array
BsonRank(v) ==
    CASE v.t = "num" -> 2 [] v.t = "str" -> 3 [] v.t = "dict" -> 4 [] v.t = "list" -> 5
      [] v.t \in {"null", "nofield"} -> 1

RECURSIVE BsonTok(_)
RECURSIVE BsonFields(_, _)
RECURSIVE BsonElems(_)
\* a token whose lexicographic order is the store's sort order of the value:
\* objects compare field by field (type, name, value), -1 ends a container
BsonTok(v) ==
    CASE v.t = "num" -> <<2, v.n>>
      [] v.t = "str" -> <<3>> \o Code(v.s) \o <<0>>
      [] v.t = "dict" -> <<4>> \o BsonFields(v.m, KeySeq(v.m)) \o <<-1>>
      [] v.t = "list" -> <<5>> \o BsonElems(v.l) \o <<-1>>
      [] v.t \in {"null", "nofield"} -> <<1>>
BsonFields(m, ks) ==
    IF ks = <<>> THEN <<>>
    ELSE <<BsonRank(m[Head(ks)])>> \o Code(Head(ks)) \o <<0>> \o BsonTok(m[Head(ks)])
           \o BsonFields(m, Tail(ks))
BsonElems(l) == IF l = <<>> THEN <<>> ELSE BsonTok(Head(l)) \o BsonElems(Tail(l))

\* the sort key of a value: an array sorts by its least element ascending, by its
\* greatest descending; an empty array sorts before null
SortTok(v, desc) ==
    IF ~IsList(v) THEN BsonTok(v)
    ELSE IF v.l = <<>> THEN <<0>>
    ELSE LET S == {BsonTok(v.l[i]) : i \in DOMAIN v.l}
         IN IF desc THEN CHOOSE t \in S : \A x \in S : LexLeq(x, t)
            ELSE CHOOSE t \in S : \A x \in S : LexLeq(t, x)

\* the value a dotted field path of _fm_val resolves to, null when it has none
FieldVal(v, segs) ==
    IF MExists(v, segs) /\ PyGet(v, segs) # Err THEN PyGet(v, segs) ELSE Null

\* result[k] = v over pairs <<k, v>> in order: a repeated key keeps its first
\* position and takes its last value
Collapse(pairs) ==
    LET firsts == SelectSeq([i \in DOMAIN pairs |-> i],
                            LAMBDA i : \A j \in 1..(i - 1) : pairs[j][1] # pairs[i][1])
        lastOf(k) == CHOOSE i \in DOMAIN pairs :
                        pairs[i][1] = k /\ \A j \in DOMAIN pairs : pairs[j][1] = k => j <= i
    IN [keys |-> [p \in DOMAIN firsts |-> pairs[firsts[p]][1]],
        val |-> Dict([k \in {pairs[i][1] : i \in DOMAIN pairs} |-> pairs[lastOf(k)][2]])]

\* seq[:n] and seq[-n:] of Python for n >= 0 (seq[-0:] is the whole sequence)
TakeFirst(seq, n) == SubSeq(seq, 1, IF n < Len(seq) THEN n ELSE Len(seq))
TakeLast(seq, n) ==
    IF n = 0 \/ n >= Len(seq) THEN seq ELSE SubSeq(seq, Len(seq) - n + 1, Len(seq))

Resp(out, val, keys) == [out |-> out, val |-> val, keys |-> keys]
Fail(out) == Resp(out, Null, <<>>)

-----------------------------------------------------------------------------
(* GET /{path}.json at bucket level: filter, sort, limit, listing.         *)

\* docs.limit(limitToFirst or limitToLast): the argument of the call
LimitArg(q) == IF PyTruthy(q.limitToFirst) THEN q.limitToFirst ELSE q.limitToLast

\* str(equalTo) of a query parameter
StrOf(p) == IF p.t = "str" THEN p.s ELSE IndexStr[p.n + 1]

\* the field the query sorts and filters on: "_fm_id", "_fm_val" or "_fm_val.<orderBy>"
OrderKey(doc, by) ==
    IF by \in {NoKey, "$key"} THEN (IF doc._fm_id = NoKey THEN Null ELSE Str(doc._fm_id))
    ELSE IF by = "$value" THEN doc._fm_val
    ELSE FieldVal(doc._fm_val, Split(by))

\* filter_ of the bucket-level query applied to one document
Matches(doc, q) ==
    LET by == q.orderBy
    IN IF by = NoKey THEN TRUE
       ELSE IF by = "$key"
       THEN IF PyTruthy(q.equalTo) THEN OrderKey(doc, by) = Str(StrOf(q.equalTo))
            ELSE InRange(OrderKey(doc, by), q.startAt, q.endAt)
       ELSE IF by = "$value"
       THEN IF PyTruthy(q.equalTo) THEN EqMatch(doc._fm_val, q.equalTo)
            ELSE InRange(doc._fm_val, q.startAt, q.endAt)
       ELSE IF PyTruthy(q.equalTo)
            THEN MExists(doc._fm_val, Split(by)) /\ EqMatch(OrderKey(doc, by), q.equalTo)
            ELSE MExists(doc._fm_val, Split(by)) /\ InRange(OrderKey(doc, by), q.startAt, q.endAt)

\* mutant of FindSorted: the documents come back in natural order
FindUnsorted(docs, q) == SelectSeq(docs, LAMBDA x : Matches(x, q))

\* collection.find(filter_, project).sort(sort_) as a sequence of documents
FindSorted(docs, q) ==
    LET desc == q.limitToLast # Null
        ord == Sorted([i \in DOMAIN docs |-> SortTok(OrderKey(docs[i], q.orderBy), desc)], desc)
    IN SelectSeq([p \in DOMAIN ord |-> docs[ord[p]]], LAMBDA x : Matches(x, q))

query_bucket(d, rl, path, q) ==
    LET docs == d[path[1]].docs
        by == q.orderBy
        found == FindSorted(docs, q)
        limited == IF (q.limitToFirst = Null /\ q.limitToLast = Null) \/ LimitArg(q) = Num(0)
                   THEN found
                   ELSE TakeFirst(found, LimitArg(q).n)
        r == Collapse([i \in DOMAIN limited |-> <<limited[i]._fm_id, limited[i]._fm_val>>])
    IN IF by = "$key" /\ BadKeyBounds(q) THEN Fail("InvalidFilterType")
       ELSE IF by = "$value" /\ IndexMissing(rl, path, ".value") THEN Fail("IndexNotDefined")
       ELSE IF by \notin {NoKey, "$key", "$value"} /\ IndexMissing(rl, <<path[1]>>, by)
            THEN Fail("IndexNotDefined")
       ELSE IF (q.limitToFirst # Null \/ q.limitToLast # Null) /\ LimitArg(q) = Null
            THEN Fail("Exception")
       ELSE IF \E i \in DOMAIN limited :
                  limited[i]._fm_id = NoKey \/ limited[i]._fm_val = NoField
            THEN Fail("Exception")
       ELSE Resp("ok", r.val, r.keys)

-----------------------------------------------------------------------------
(* GET /{path}.json below bucket level: the children of one sub-value.     *)

\* int(p) of a query parameter; CanInt is false when it raises ValueError
CanInt(p) == p.t = "num" \/ (p.t = "str" /\ IsDigit(p.s))
PyInt(p) == IF p.t = "num" THEN p.n ELSE IntOf(p.s)

\* seq[n:] of Python for n >= 0
DropFirst(seq, n) == SubSeq(seq, n + 1, Len(seq))

\* existing_data[:limitToFirst] then existing_data[-limitToLast:] on a list
Limited(seq, q) ==
    LET s1 == IF q.limitToFirst # Null THEN TakeFirst(seq, q.limitToFirst.n) ELSE seq
    IN IF q.limitToLast # Null THEN TakeLast(s1, q.limitToLast.n) ELSE s1

HasLimit(q) == q.limitToFirst # Null \/ q.limitToLast # Null
HasFilter(q) == q.startAt # Null \/ q.endAt # Null \/ q.equalTo # Null

\* the branch for a value that is neither list nor dict
ScalarChild(v, q) ==
    IF HasLimit(q) THEN Resp("ok", Null, <<>>)
    ELSE IF HasFilter(q) THEN Resp("ok", Dict(EmptyMap), <<>>)
    ELSE Resp("ok", v, <<>>)

\* a mapping response built from <<key, value>> pairs in order
PairsResp(pairs) == Resp("ok", Collapse(pairs).val, Collapse(pairs).keys)

\* str(k) >= str(startAt) and str(k) <= str(endAt) on Python strings
StrInRange(s, lo, hi) ==
    /\ lo = Null \/ LexLeq(PyStr(lo), s)
    /\ hi = Null \/ LexLeq(s, PyStr(hi))

\* orderBy == '"$key"' on a list: slices by int(startAt), int(endAt), int(equalTo)
ListByKey(l, q) ==
    LET l1 == IF q.startAt # Null THEN DropFirst(l, PyInt(q.startAt)) ELSE l
        l2 == IF q.endAt # Null THEN TakeFirst(l1, PyInt(q.endAt)) ELSE l1
        e == PyInt(q.equalTo)
        elem == IF e < Len(l2) THEN l2[e + 1] ELSE Null
    IN IF \E p \in {q.startAt, q.endAt, q.equalTo} : p # Null /\ ~CanInt(p)
       THEN Fail("Exception")
       ELSE IF q.equalTo = Null THEN Resp("ok", List(Limited(l2, q)), <<>>)
       ELSE IF e = Len(l2) THEN Fail("Exception")
       ELSE IF ~HasLimit(q) THEN Resp("ok", elem, <<>>)
       ELSE IF IsList(elem) THEN Resp("ok", List(Limited(elem.l, q)), <<>>)
       ELSE Fail("Exception")

\* orderBy == '"$key"' on a dict: items sorted by str(key), range on str(key);
\* equalTo leaves a generator, which the limit slices cannot subscript
DictByKey(m, q) ==
    LET ks == KeySeq(m)
        ord == Sorted([i \in DOMAIN ks |-> Code(ks[i])], FALSE)
        items == [p \in DOMAIN ord |-> <<ks[ord[p]], m[ks[ord[p]]]>>]
        ranged == SelectSeq(items, LAMBDA x : StrInRange(Code(x[1]), q.startAt, q.endAt))
        equal == SelectSeq(ranged, LAMBDA x : q.equalTo.t = "str" /\ x[1] = q.equalTo.s)
    IN IF q.equalTo # Null
       THEN IF HasLimit(q) THEN Fail("Exception") ELSE PairsResp(equal)
       ELSE PairsResp(Limited(ranged, q))

RECURSIVE PyTok(_, _)
RECURSIVE PyToks(_, _)
\* utils.order_by_value sort_key((key, value)) as a token: (0, None),
\* (1, not v, key), (2, n, key), (3, s, key), (4, [...], key), (5, [...], key);
\* -1 ends a list, 0 ends a string
PyTok(key, v) ==
    LET kt == IF key.t = "num" THEN <<key.n>> ELSE Code(key.s) \o <<0>>
    IN CASE v.t = "null" -> <<0>>
         [] v.t = "bool" -> <<1, IF v.b THEN 0 ELSE 1>> \o kt
         [] v.t = "num" -> <<2, v.n>> \o kt
         [] v.t = "str" -> <<3>> \o Code(v.s) \o <<0>> \o kt
         [] v.t = "list" ->
              <<4>> \o PyToks([i \in DOMAIN v.l |-> <<Num(i - 1), v.l[i]>>], 1) \o <<-1>> \o kt
         [] v.t = "dict" ->
              <<5>> \o PyToks([i \in DOMAIN KeySeq(v.m) |->
                                 <<Str(KeySeq(v.m)[i]), v.m[KeySeq(v.m)[i]]>>], 1)
                    \o <<-1>> \o kt
PyToks(pairs, i) ==
    IF i > Len(pairs) THEN <<>> ELSE PyTok(pairs[i][1], pairs[i][2]) \o PyToks(pairs, i + 1)

\* sorted(dictionary.items(), key=sort_key), then the filters on str(value)
OrderedByValue(pairs, startAt, endAt) ==
    LET ord == Sorted([i \in DOMAIN pairs |-> PyTok(Str(pairs[i][1]), pairs[i][2])], FALSE)
        items == [p \in DOMAIN ord |-> pairs[ord[p]]]
    IN SelectSeq(items, LAMBDA x : StrInRange(PyStr(x[2]), startAt, endAt))

\* utils.order_by_value on a mapping of the store
order_by_value(m, startAt, endAt) ==
    OrderedByValue([i \in DOMAIN KeySeq(m) |-> <<KeySeq(m)[i], m[KeySeq(m)[i]]>>],
                   startAt, endAt)

\* orderBy == '"$value"' on a list: filters on str(item)
ListByValue(l, q) ==
    LET ranged == SelectSeq(l, LAMBDA x : StrInRange(PyStr(x), q.startAt, q.endAt))
        equal == IF q.equalTo = Null THEN ranged
                 ELSE SelectSeq(ranged, LAMBDA x : PyStr(x) = PyStr(q.equalTo))
    IN Resp("ok", List(Limited(equal, q)), <<>>)

\* orderBy == '"$value"' on a dict: order_by_value(...).items() is not subscriptable,
\* nor is the generator equalTo leaves
DictByValue(m, q) ==
    LET items == order_by_value(m, q.startAt, q.endAt)
        equal == SelectSeq(items, LAMBDA x : q.equalTo.t = "str" /\ x[1] = q.equalTo.s)
    IN IF HasLimit(q) THEN Fail("Exception")
       ELSE IF q.equalTo # Null THEN PairsResp(equal)
       ELSE PairsResp(items)

\* the branches of orderBy == '"$key"' and orderBy == '"$value"' on the addressed
\* value: a list, a dict, anything else
ChildrenByKey(v, q) ==
    IF IsList(v) THEN ListByKey(v.l, q)
    ELSE IF IsDict(v) THEN DictByKey(v.m, q)
    ELSE ScalarChild(v, q)

ChildrenByValue(v, q) ==
    IF IsList(v) THEN ListByValue(v.l, q)
    ELSE IF IsDict(v) THEN DictByValue(v.m, q)
    ELSE ScalarChild(v, q)

query_record(d, rl, path, q) ==
    LET docs == d[path[1]].docs
        i == FindByKey(docs, path[2], child_components(path))
        v == PyGet(docs[i]._fm_val, child_components(path))
        by == q.orderBy
    IN IF i = 0 THEN Resp("ok", Null, <<>>)
       ELSE IF v = Err THEN Fail("Exception")
       ELSE IF by = NoKey THEN Resp("ok", v, <<>>)
       ELSE IF by = "$key" THEN ChildrenByKey(v, q)
       ELSE IF by = "$value"
       THEN IF IndexMissing(rl, path, ".value") THEN Fail("IndexNotDefined")
            ELSE ChildrenByValue(v, q)
       ELSE IF IndexMissing(rl, path, by) THEN Fail("IndexNotDefined")
       ELSE Resp("ok", v, <<>>)

-----------------------------------------------------------------------------
(* GET /.json: the whole store, one entry per bucket.                      *)

\* db.list_collection_names() without the special names, then collections.sort()
Collections(d) ==
    LET S == {b \in DOMAIN d : d[b].exists}
    IN CHOOSE seq \in [1..Cardinality(S) -> S] :
          \A i, j \in 1..Cardinality(S) : i < j => LexLess(Code(seq[i]), Code(seq[j]))

\* utils.order_by_key on the collection names: item >= startAt, item <= endAt
order_by_key(items, startAt, endAt) ==
    SelectSeq(items, LAMBDA x : StrInRange(Code(x), startAt, endAt))

\* result[col] = {}; result[col].update({doc["_fm_id"]: doc["_fm_val"]}) per document
RootEntries(d, cols) ==
    [i \in DOMAIN cols |->
        <<cols[i], Collapse([j \in DOMAIN d[cols[i]].docs |->
                               <<d[cols[i]].docs[j]._fm_id, d[cols[i]].docs[j]._fm_val>>]).val>>]

\* a document of a listed collection has no _fm_id or no _fm_val: KeyError
RootKeyError(d, cols) ==
    \E i \in DOMAIN cols : \E j \in DOMAIN d[cols[i]].docs :
        d[cols[i]].docs[j]._fm_id = NoKey \/ d[cols[i]].docs[j]._fm_val = NoField

\* the listing of the collections cols, or the KeyError
RootResp(d, cols) ==
    IF RootKeyError(d, cols) THEN Fail("Exception") ELSE PairsResp(RootEntries(d, cols))

query_data_root_v2(d, rl, q) ==
    LET by == q.orderBy
        all == Collections(d)
        ranged == IF q.startAt # Null \/ q.endAt # Null
                  THEN order_by_key(all, q.startAt, q.endAt) ELSE all
        equal == IF q.equalTo # Null /\ Len(ranged) > 0
                 THEN SelectSeq(ranged, LAMBDA x : q.equalTo = Str(x))
                 ELSE ranged
        valued == IF q.equalTo # Null THEN <<>>
                  ELSE OrderedByValue(RootEntries(d, all), q.startAt, q.endAt)
        emptied == IF HasFilter(q) THEN <<>> ELSE all
    IN IF by = NoKey THEN RootResp(d, all)
       ELSE IF by = "$key"
       THEN IF BadKeyBounds(q) THEN Fail("InvalidFilterType")
            ELSE RootResp(d, Limited(equal, q))
       ELSE IF by = "$value"
       THEN IF IndexMissing(rl, NoScope, ".value") THEN Fail("IndexNotDefined")
            ELSE IF RootKeyError(d, all) THEN Fail("Exception")
            ELSE PairsResp(Limited(valued, q))
       ELSE IF IndexMissing(rl, NoScope, by) \/ check_index(rl, NoScope) \in {Str(""), List(<<>>)}
            THEN Fail("IndexNotDefined")
       ELSE RootResp(d, Limited(emptied, q))

-----------------------------------------------------------------------------
(* The query evaluator: validation, then the handler of the path.          *)

Query(d, rl, path, q) ==
    IF InvalidQuery(q) THEN Fail("InvalidQuery")
    ELSE IF path = <<>> THEN query_data_root_v2(d, rl, q)
    ELSE IF Len(path) > 1 THEN query_record(d, rl, path, q)
    ELSE query_bucket(d, rl, path, q)

-----------------------------------------------------------------------------
(* The state machine.                                                      *)

Procs == {"p1", "p2"}

\* one store call of the request st
Step(d, st, held) ==
    CASE st.op = "put" -> put_data_v2(d, st, held)
      [] st.op = "patch" -> update_data_v2(d, st, held)
      [] st.op = "post" -> post_data_v2(d, st, held)
      [] st.op = "delete" -> delete_data_v2(d, st, held)
      [] st.op = "get" ->
           Res(d, [Finish(st, query_data_v2(d, st.path).out) EXCEPT
                       !.val = query_data_v2(d, st.path).val])

RECURSIVE Run(_, _)
\* a request run to completion with nothing interleaved
Run(d, st) ==
    IF st.pc = "done" THEN Res(d, st)
    ELSE LET r == Step(d, st, {}) IN Run(r.db, r.st)

\* request inputs: paths bucket, bucket/record, bucket/record/field, .../field/field
Segs == {<<>>, <<"a">>, <<"b">>, <<"a", "a">>, <<"a", "b">>, <<"a", "a", "b">>}
Paths == {<<b>> \o s : b \in Buckets, s \in Segs}

Scalars == {Num(1)}
Mappings == {One("b", Num(2))}
Sequences == {List(<<Num(1), Num(2)>>)}
Values == Scalars \cup Mappings \cup Sequences

PutData(path) ==
    IF Len(path) = 1 THEN Values \cup {Null, Dict(EmptyMap)} ELSE Values
PatchData(path) == {One("a", Num(1)), One("a/b", Num(2))}
PostData(path) == IF Len(path) <= 2 THEN {Null, Num(1)} ELSE {Num(1)}

EmptyDb == [b \in Buckets |-> NoColl]

InitLast == [op |-> "none", path |-> <<>>, data |-> Null, name |-> NoKey,
             out |-> "none", pre |-> EmptyDb, q |-> NoParams, val |-> Null, keys |-> <<>>]

Init ==
    /\ db = EmptyDb
    /\ rules = <<>>
    /\ last = InitLast
    /\ proc = [p \in Procs |-> Idle]
    /\ snap = EmptyDb
    /\ served = 0

AllIdle == \A p \in Procs : proc[p].pc = "idle"

\* a whole request, served alone
Serve(st) ==
    LET r == Run(db, st)
    IN /\ AllIdle
       /\ served < MaxOps
       /\ served' = served + 1
       /\ db' = r.db
       /\ last' = [InitLast EXCEPT !.op = st.op, !.path = st.path, !.data = st.data,
                                   !.name = st.name, !.out = r.st.out, !.pre = db]
       /\ UNCHANGED <<rules, proc, snap>>

Put == \E path \in Paths : \E data \in PutData(path) : Serve(Begin("put", path, data, NoKey))

Patch == \E path \in Paths : \E data \in PatchData(path) : Serve(Begin("patch", path, data, NoKey))

\* uuid.uuid4().hex: a name no earlier request was given
NewName(k) == GenIds[k + 1]

Post ==
    \E path \in Paths : \E data \in PostData(path) :
        Serve(Begin("post", path, data, NewName(served)))

Delete == \E path \in Paths : Serve(Begin("delete", path, Null, NoKey))

Next == Put \/ Patch \/ Post \/ Delete

Spec == Init /\ [][Next]_vars

-----------------------------------------------------------------------------
(* Two requests in flight: their store calls interleave in any order.      *)

Req(op, segs, data) == [op |-> op, path |-> <<"u">> \o segs, data |-> data]

ConcReqs ==
    { Req("put", <<"a">>, Num(1)), Req("put", <<"a">>, One("b", Num(2))),
      Req("put", <<"b">>, Num(1)), Req("put", <<"a", "a">>, Num(1)),
      Req("put", <<"a", "b">>, Num(1)), Req("patch", <<"a">>, One("a", Num(1))),
      Req("post", <<>>, Num(1)), Req("delete", <<"a">>, Null),
      Req("delete", <<"b">>, Null),
      Req("put", <<>>, One("b", Num(2))), Req("get", <<>>, Null) }

Running(p) == proc[p].pc \notin {"idle", "done"}
BothDone == \A p \in Procs : proc[p].pc = "done"

\* the _ids the requests in flight remember
Held == {proc[p].oid : p \in Procs} \ {-1}

StartPair ==
    \E r1 \in ConcReqs : \E r2 \in ConcReqs :
        /\ AllIdle
        /\ served + 2 <= MaxOps
        /\ served' = served + 2
        /\ proc' = [p \in Procs |->
                      IF p = "p1" THEN Begin(r1.op, r1.path, r1.data, NewName(served))
                      ELSE Begin(r2.op, r2.path, r2.data, NewName(served + 1))]
        /\ snap' = db
        /\ UNCHANGED <<db, rules, last>>

ProcStep(p) ==
    /\ Running(p)
    /\ LET r == Step(db, proc[p], Held)
       IN db' = r.db /\ proc' = [proc EXCEPT ![p] = r.st]
    /\ UNCHANGED <<rules, last, snap, served>>

EndPair ==
    /\ BothDone
    /\ proc' = [p \in Procs |-> Idle]
    /\ UNCHANGED <<db, rules, last, snap, served>>

NextConc ==
    Put \/ Patch \/ Post \/ Delete \/ StartPair \/ (\E p \in Procs : ProcStep(p)) \/ EndPair

SpecConc == Init /\ [][NextConc]_vars

-----------------------------------------------------------------------------
(* Queries, the index registry and the whole-store delete, one request at  *)
(* a time, over a store filled by a few writes.                            *)

QueryWrites ==
    { Req("put", <<"a">>, Num(1)), Req("put", <<"a">>, One("b", Num(2))),
      Req("put", <<"b">>, One("b", Num(1))), Req("put", <<"c">>, Num(1)),
      Req("put", <<"a", "a", "b">>, Num(1)),
      Req("patch", <<>>, Dict([k \in {"a", "b"} |-> Num(2)])),
      Req("put", <<>>, List(<<Num(1), Num(2)>>)), Req("put", <<>>, Num(1)),
      Req("delete", <<>>, Null), Req("post", <<>>, Num(1)) }

Write == \E r \in QueryWrites : Serve(Begin(r.op, r.path, r.data, NewName(served)))

\* rule scopes: a bucket, the whole store, a record
Scopes == {<<"u">>, NoScope, <<"u", "a">>}
IndexSpecs == {Str(".value"), List(<<Str("b")>>)}

\* a request that is not a step machine of the write engine, served alone
Record(op, path, data, out) ==
    [InitLast EXCEPT !.op = op, !.path = path, !.data = data, !.out = out, !.pre = db]

SetIndex ==
    \E scope \in Scopes : \E index_on \in IndexSpecs :
        /\ AllIdle /\ served < MaxOps
        /\ served' = served + 1
        /\ rules' = set_index(rules, scope, index_on)
        /\ last' = Record("set_index", scope, index_on, "ok")
        /\ UNCHANGED <<db, proc, snap>>

DeleteIndex ==
    \E scope \in Scopes :
        /\ AllIdle /\ served < MaxOps
        /\ served' = served + 1
        /\ rules' = delete_index(rules, scope).rules
        /\ last' = Record("delete_index", scope, Null, delete_index(rules, scope).out)
        /\ UNCHANGED <<db, proc, snap>>

DeleteRoot ==
    /\ AllIdle /\ served < MaxOps
    /\ served' = served + 1
    /\ db' = delete_data_root_v2(db, rules).db
    /\ rules' = delete_data_root_v2(db, rules).rules
    /\ last' = Record("delete_root", <<>>, Null, "ok")
    /\ UNCHANGED <<proc, snap>>

P(by, startAt, endAt, equalTo, limitToFirst, limitToLast) ==
    [orderBy |-> by, startAt |-> startAt, endAt |-> endAt, equalTo |-> equalTo,
     limitToFirst |-> limitToFirst, limitToLast |-> limitToLast]

\* the QuerySpecs the model sends
QueryParams ==
    { NoParams,
      P(NoKey, Str("b"), Null, Null, Null, Null), P(NoKey, Null, Str("b"), Null, Null, Null),
      P(NoKey, Null, Null, Str("b"), Null, Null), P(NoKey, Null, Null, Null, Num(1), Null),
      P(NoKey, Null, Null, Null, Null, Num(1)), P(NoKey, Str("a"), Str("b"), Null, Null, Null),
      P(NoKey, Null, Null, Null, Num(1), Num(1)),
      P("$key", Null, Null, Null, Null, Null), P("$key", Str("b"), Null, Null, Null, Null),
      P("$key", Null, Str("b"), Null, Null, Null), P("$key", Str("b"), Str("b"), Null, Null, Null),
      P("$key", Str("a"), Str("b"), Null, Null, Null), P("$key", Num(1), Null, Null, Null, Null),
      P("$key", Null, Num(1), Null, Null, Null), P("$key", Str("a"), Num(1), Null, Null, Null),
      P("$key", Null, Null, Str("b"), Null, Null), P("$key", Str("b"), Null, Str("a"), Null, Null),
      P("$key", Str("a"), Null, Str("b"), Null, Null), P("$key", Str("b"), Null, Str(""), Null, Null),
      P("$key", Str("b"), Null, Num(0), Null, Null), P("$key", Null, Null, Null, Num(1), Null),
      P("$key", Null, Null, Null, Num(2), Null), P("$key", Null, Null, Null, Null, Num(1)),
      P("$key", Null, Null, Null, Null, Num(2)), P("$key", Null, Null, Null, Num(0), Null),
      P("$key", Null, Null, Null, Null, Num(0)), P("$key", Null, Null, Null, Num(1), Num(1)),
      P("$key", Str("a"), Null, Null, Num(1), Null), P("$key", Null, Str("b"), Null, Null, Num(1)),
      P("$value", Null, Null, Null, Null, Null), P("$value", Num(1), Null, Null, Null, Null),
      P("$value", Null, Null, Null, Num(1), Null), P("$value", Null, Null, Null, Null, Num(1)),
      P("$value", Null, Null, Null, Num(1), Num(1)), P("$value", Null, Null, Num(1), Null, Null),
      P("b", Null, Null, Null, Null, Null), P("b", Num(2), Null, Null, Null, Null),
      P("b", Null, Null, Null, Null, Num(1)), P("a", Null, Null, Null, Null, Null) }

QueryPaths == {<<>>, <<"u">>, <<"u", "a">>}

Get ==
    \E path \in QueryPaths : \E q \in QueryParams :
        /\ AllIdle /\ served < MaxOps
        /\ served' = served + 1
        /\ last' = [InitLast EXCEPT !.op = "get", !.path = path, !.q = q, !.pre = db,
                                    !.out = Query(db, rules, path, q).out,
                                    !.val = Query(db, rules, path, q).val,
                                    !.keys = Query(db, rules, path, q).keys]
        /\ UNCHANGED <<db, rules, proc, snap>>

NextQuery == Write \/ SetIndex \/ DeleteIndex \/ DeleteRoot \/ Get

SpecQuery == Init /\ [][NextQuery]_vars

-----------------------------------------------------------------------------
(* The children of one addressed sub-value under a query: the record-level *)
(* branches and utils.order_by_value applied to a value and a QuerySpec    *)
(* drawn at the start.                                                     *)

\* values a child can hold, and the sub-values a path can address
ChildVals ==
    { Null, Bool(FALSE), Bool(TRUE), Num(1), Num(9), Num(10), Str("a"), Str("b"),
      List(<<Num(1)>>), One("b", Num(2)) }

Children ==
    { Dict([k \in {"a", "b"} |-> IF k = "a" THEN x ELSE y]) : x, y \in ChildVals }
        \cup { List(<<Num(1), Num(9), Num(10)>>), List(<<Num(10), Num(9), Num(1), Num(9)>>),
               List(<<Str("a"), Str("b"), Str("c"), Str("a")>>),
               List(<<Null, Bool(TRUE), Str("a")>>), List(<<>>), Num(9) }

\* QuerySpecs ordered by value and by key, without limits
ChildParams ==
    { P("$value", s, e, x, Null, Null) :
          s \in {Null, Num(1), Num(9), Str("a")}, e \in {Null, Num(9), Str("a")},
          x \in {Null, Num(9), Str("a")} }
        \cup { P("$key", s, e, x, Null, Null) :
                 s \in {Null, Num(0), Num(1), Num(2)}, e \in {Null, Num(1), Num(2), Num(3)},
                 x \in {Null, Num(0), Num(2), Num(3)} }

InitChildren ==
    /\ db = EmptyDb
    /\ rules = <<>>
    /\ proc = [p \in Procs |-> Idle]
    /\ snap = EmptyDb
    /\ served = 0
    /\ \E v \in Children : \E q \in ChildParams :
           last = [InitLast EXCEPT !.op = "children", !.data = v, !.q = q]

\* the response r of the operation op on the drawn value
Apply(op, r) ==
    /\ last.op = "children"
    /\ last' = [last EXCEPT !.op = op, !.out = r.out, !.val = r.val, !.keys = r.keys]
    /\ UNCHANGED <<db, rules, proc, snap, served>>

ByKey == last.q.orderBy = "$key" /\ Apply("by_key", ChildrenByKey(last.data, last.q))

ByValue == last.q.orderBy = "$value" /\ Apply("by_value", ChildrenByValue(last.data, last.q))

OrderByValue ==
    /\ last.q.orderBy = "$value" /\ IsDict(last.data)
    /\ Apply("order_by_value",
             PairsResp(order_by_value(last.data.m, last.q.startAt, last.q.endAt)))

NextChildren == ByKey \/ ByValue \/ OrderByValue

SpecChildren == InitChildren /\ [][NextChildren]_vars

-----------------------------------------------------------------------------
(* Properties of the write engine, one request at a time (Spec).           *)

Read(d, path) == query_data_v2(d, path)
PutOk == last.op = "put" /\ last.out = "ok"

\* the mapping {"0": l[1], "1": l[2], ...} a bucket-level read gives back for a list
Indexed(l) == Dict([k \in {IndexStr[i] : i \in 1..Len(l)} |->
                      l[CHOOSE i \in 1..Len(l) : IndexStr[i] = k]])

PlainKeys(data) == \A k \in DOMAIN data.m : ~HasSlash(k)

\* C2: merge is non-destructive: after a successful merge(path, m) with plain keys,
\* read(path) is a mapping in which every key of m holds its new value and every
\* other child the location had before the call still holds its previous value.
C2_MergeNonDestructive ==
    (last.op = "patch" /\ last.out = "ok" /\ PlainKeys(last.data)) =>
        LET r0 == Read(last.pre, last.path)
            r1 == Read(db, last.path)
        IN /\ r1.out = "ok" /\ IsDict(r1.val)
           /\ \A k \in DOMAIN last.data.m :
                 k \in DOMAIN r1.val.m /\ r1.val.m[k] = last.data.m[k]
           /\ (r0.out = "ok" /\ IsDict(r0.val)) =>
                 \A k \in (DOMAIN r0.val.m) \ (DOMAIN last.data.m) :
                     k \in DOMAIN r1.val.m /\ r1.val.m[k] = r0.val.m[k]

\* C3: record-id uniqueness: in every reachable state no bucket holds two records
\* with the same id.
C3_UniqueRecordIds == \A b \in Buckets : ~HasDupKeys(db[b].docs)

\* the record a delete of bucket/record/field finds, in the store before the call
Target(d, path) == FindByKey(d[path[1]].docs, path[2], child_components(path))

\* C6: delete-then-empty cleanup: when delete(bucket/record/field) removes the only
\* remaining field of a record's value, a subsequent read of the bucket no longer
\* lists that record id.
C6_DeleteOnlyFieldRemovesRecord ==
    (/\ last.op = "delete" /\ last.out = "ok" /\ Len(last.path) = 3
     /\ Target(last.pre, last.path) > 0
     /\ LET v == last.pre[last.path[1]].docs[Target(last.pre, last.path)]._fm_val
        IN IsDict(v) /\ DOMAIN v.m = {last.path[3]})
        => last.path[2] \notin DOMAIN Read(db, <<last.path[1]>>).val.m

\* the path exists: the bucket for a bucket path, the record or field otherwise
PathExists(d, path) ==
    IF Len(path) = 1 THEN d[path[1]].exists ELSE Target(d, path) > 0

\* C7: delete of a path that does not exist before the call fails with NotFound
\* (neither success nor StorageFailure) and leaves the store unchanged.
C7_DeleteMissingIsNotFound ==
    (last.op = "delete" /\ ~PathExists(last.pre, last.path))
        => last.out = "NotFound" /\ db = last.pre

\* documents compared without their _id
Content(d) == [b \in Buckets |->
                 [i \in DOMAIN d[b].docs |-> <<d[b].docs[i]._fm_id, d[b].docs[i]._fm_val>>]]

\* C8: create appends under the addressed path: after create(path, v) returns the
\* generated id n, read(path/n) returns v, whether or not the record named by path
\* segment 1 existed.
C8_CreateAppendsUnderPath ==
    (last.op = "post" /\ last.out = "ok" /\ last.data # Null)
        => Read(db, Append(last.path, last.name)) = [out |-> "ok", val |-> last.data]

\* C9: create with an absent value fails with InvalidPayload and leaves the store
\* unchanged; it never succeeds with a generated id.
C9_CreateAbsentRejected ==
    (last.op = "post" /\ last.data = Null)
        => last.out = "InvalidPayload" /\ db = last.pre

\* the store without the _ids of its documents
Shape(d) == [b \in Buckets |-> [exists |-> d[b].exists, uniq |-> d[b].uniq,
                                docs |-> Content(d)[b]]]

-----------------------------------------------------------------------------
(* Properties of two interleaved requests (SpecConc).                      *)

Restart(st) == Begin(st.op, st.path, st.data, st.name)

\* the documents of every bucket as a bag of <<id, value>>
Bag(d) ==
    [b \in Buckets |->
        LET c == Content(d)[b]
        IN {<<c[i], Cardinality({j \in DOMAIN c : c[j] = c[i]})>> : i \in DOMAIN c}]

\* the store after the two requests, one after the other, from the store d
Serial(d, s1, s2) == Run(Run(d, Restart(s1)).db, Restart(s2)).db

Disjoint(p, q) == ~Prefix(p, q) /\ ~Prefix(q, p)

\* C4: concurrent writers to distinct paths never interfere: once two requests on
\* paths neither of which contains the other have ended, the store equals the store
\* left by running them one after the other in some order.
C4_DistinctPathsSerializable ==
    (BothDone /\ Disjoint(proc["p1"].path, proc["p2"].path)) =>
        \/ Bag(db) = Bag(Serial(snap, proc["p1"], proc["p2"]))
        \/ Bag(db) = Bag(Serial(snap, proc["p2"], proc["p1"]))

\* C5: concurrent replaces of the same path with values v1 # v2 are last-write-wins:
\* once both have ended successfully the bucket holds a single record for that id
\* and a read of the path returns v1 or v2.
C5_SamePathLastWriteWins ==
    (/\ BothDone
     /\ \A p \in Procs : proc[p].op = "put" /\ proc[p].out = "ok"
     /\ proc["p1"].path = proc["p2"].path
     /\ proc["p1"].data # proc["p2"].data
     /\ ~HasDupKeys(snap["u"].docs)) =>
        LET path == proc["p1"].path
            docs == db[path[1]].docs
        IN /\ Cardinality({i \in DOMAIN docs : docs[i]._fm_id = path[2]}) <= 1
           /\ Read(db, path).val \in {proc["p1"].data, proc["p2"].data}

\* C11: replace at bucket level is atomic: a read of the bucket that runs while
\* replace(bucket, m) is in progress returns the complete old contents or the
\* complete new contents m, never an empty or partly filled bucket.
C11_BucketReplaceAtomic ==
    \A p, r \in Procs :
        (/\ BothDone
         /\ proc[p].op = "put" /\ Len(proc[p].path) = 1 /\ proc[p].out = "ok"
         /\ proc[r].op = "get" /\ proc[r].path = proc[p].path)
            => proc[r].val \in {Read(snap, proc[r].path).val, proc[p].data}

-----------------------------------------------------------------------------
(* Properties of queries, the index registry and the deletes (SpecQuery).  *)

\* C13: bucket delete and store delete never fail and are idempotent: each
\* succeeds whatever the store holds (a missing bucket, an empty store), leaves
\* the bucket (every bucket) dropped, and applying it again succeeds and
\* changes nothing.
C13_DeleteIdempotent ==
    /\ (last.op = "delete" /\ Len(last.path) = 1) =>
           LET again == Run(db, Begin("delete", last.path, Null, NoKey))
           IN /\ last.out = "ok" /\ db[last.path[1]] = NoColl
              /\ again.st.out = "ok" /\ again.db = db
    /\ last.op = "delete_root" =>
           /\ last.out = "ok" /\ db = EmptyDb
           /\ delete_data_root_v2(db, rules).db = db
           /\ delete_data_root_v2(db, rules).rules = rules

\* C13 witness: a bucket delete served while the bucket did not exist
C13_Witness ==
    /\ last.op = "delete" /\ Len(last.path) = 1 /\ last.out = "ok"
    /\ last.pre[last.path[1]] = NoColl

\* the ids of the records a bucket holds, and a query that only orders
Ids(docs) == {docs[i]._fm_id : i \in DOMAIN docs}
OrderOnly(by) == P(by, Null, Null, Null, Null, Null)

\* the response body val is a mapping over exactly the ids ks, each with the
\* value of a record of that id
ShowsRecords(val, docs, ks) ==
    /\ val.t = "dict" /\ DOMAIN val.m = ks
    /\ \A k \in ks : \E i \in DOMAIN docs : docs[i]._fm_id = k /\ docs[i]._fm_val = val.m[k]

\* the ids of a sequence of keys ascend strictly on code points
Ascending(keys) ==
    \A i \in 1..(Len(keys) - 1) : LexLess(Code(keys[i]), Code(keys[i + 1]))

\* C14: ordering by key is lexicographic: a bucket-level query ordered by key
\* with no filter and no limit succeeds and returns every record id of the
\* bucket, each once with the value of a record of that id, in strictly
\* ascending lexicographic order of id, whatever the insertion order was.
C14_ByKeyLexicographic ==
    (last.op = "get" /\ Len(last.path) = 1 /\ last.q = OrderOnly("$key")) =>
        LET docs == db[last.path[1]].docs
        IN /\ last.out = "ok"
           /\ {last.keys[i] : i \in DOMAIN last.keys} = Ids(docs)
           /\ Ascending(last.keys)
           /\ ShowsRecords(last.val, docs, Ids(docs))

\* C14 witness: a by-key query of a bucket of three records whose insertion
\* order is not the order of their ids
C14_Witness ==
    /\ last.op = "get" /\ Len(last.path) = 1 /\ last.q = OrderOnly("$key")
    /\ last.out = "ok" /\ Len(last.keys) >= 3
    /\ LET docs == db[last.path[1]].docs
       IN \E i \in 1..(Len(docs) - 1) : LexLess(Code(docs[i + 1]._fm_id), Code(docs[i]._fm_id))

\* a by-key range query: string bounds (either may be unset), no equalTo, no limit
KeyRange(q) ==
    /\ q.orderBy = "$key" /\ q.equalTo = Null
    /\ q.limitToFirst = Null /\ q.limitToLast = Null
    /\ q.startAt # Null \/ q.endAt # Null
    /\ q.startAt = Null \/ q.startAt.t = "str"
    /\ q.endAt = Null \/ q.endAt.t = "str"

\* s <= id <= e on code points, an unset bound leaving that side open
IdInRange(id, q) ==
    /\ q.startAt = Null \/ LexLeq(Code(q.startAt.s), Code(id))
    /\ q.endAt = Null \/ LexLeq(Code(id), Code(q.endAt.s))

\* C15: range inclusivity: a bucket-level by-key query with startAt = s and
\* endAt = e succeeds and returns exactly the record ids of the bucket with
\* s <= id <= e lexicographically, bounds included, each with the value of a
\* record of that id.
C15_RangeInclusive ==
    (last.op = "get" /\ Len(last.path) = 1 /\ KeyRange(last.q)) =>
        LET docs == db[last.path[1]].docs
            hits == {k \in Ids(docs) : IdInRange(k, last.q)}
        IN /\ last.out = "ok"
           /\ {last.keys[i] : i \in DOMAIN last.keys} = hits
           /\ ShowsRecords(last.val, docs, hits)

\* C15 witness: startAt = endAt = "b" on a bucket that holds b and other
\* records returns record b alone
C15_Witness ==
    /\ last.op = "get" /\ Len(last.path) = 1
    /\ last.q = P("$key", Str("b"), Str("b"), Null, Null, Null)
    /\ last.keys = <<"b">> /\ Cardinality(Ids(db[last.path[1]].docs)) >= 2

\* the same query with both limits unset, and the first / last min(n, length)
\* entries of a sequence
Unlimited(q) == [q EXCEPT !.limitToFirst = Null, !.limitToLast = Null]
FirstN(seq, n) == SubSeq(seq, 1, IF n < Len(seq) THEN n ELSE Len(seq))
LastN(seq, n) == SubSeq(seq, (IF n < Len(seq) THEN Len(seq) - n ELSE 0) + 1, Len(seq))

\* an ordered bucket-level query with exactly one limit whose unlimited form succeeds
OneLimit(path, q) ==
    /\ Len(path) = 1 /\ q.orderBy # NoKey
    /\ (q.limitToFirst = Null) # (q.limitToLast = Null)
    /\ query_bucket(db, rules, path, Unlimited(q)).out = "ok"

\* C16: limit semantics: where the ordered, filtered query without a limit
\* returns the sequence cand, the query with limitToFirst = n succeeds and
\* returns exactly the first min(n, length) entries of cand, and with
\* limitToLast = n exactly its last min(n, length) entries, each with its value.
C16_LimitSemantics ==
    (last.op = "get" /\ OneLimit(last.path, last.q)) =>
        LET cand == query_bucket(db, rules, last.path, Unlimited(last.q))
            want == IF last.q.limitToFirst # Null
                    THEN FirstN(cand.keys, last.q.limitToFirst.n)
                    ELSE LastN(cand.keys, last.q.limitToLast.n)
            ks == {want[i] : i \in DOMAIN want}
        IN /\ last.out = "ok"
           /\ {last.keys[i] : i \in DOMAIN last.keys} = ks
           /\ last.val = Dict([k \in ks |-> cand.val.m[k]])

\* a parameter other than orderBy is set
OtherParam(q) ==
    \/ q.startAt # Null \/ q.endAt # Null \/ q.equalTo # Null
    \/ q.limitToFirst # Null \/ q.limitToLast # Null

\* C17: orderBy is required by every other parameter: a query with orderBy
\* unset and at least one of startAt, endAt, equalTo, limitToFirst, limitToLast
\* set fails with InvalidQuery and returns no data, on every path.
C17_OrderByRequired ==
    (last.op = "get" /\ last.q.orderBy = NoKey /\ OtherParam(last.q)) =>
        (last.out = "InvalidQuery" /\ last.val = Null)

\* C18: limitToFirst and limitToLast are mutually exclusive: every query that
\* sets both fails with InvalidQuery and returns no data, whatever orderBy, the
\* other parameters, the path and the index rules are.
C18_LimitsExclusive ==
    (last.op = "get" /\ last.q.limitToFirst # Null /\ last.q.limitToLast # Null) =>
        (last.out = "InvalidQuery" /\ last.val = Null)

\* C18 witness: both limits set on an ordered query of a bucket that holds
\* records and whose scope has an index rule
C18_Witness ==
    /\ last.op = "get" /\ last.q.limitToFirst # Null /\ last.q.limitToLast # Null
    /\ last.q.orderBy = "$value" /\ last.path = <<"u">>
    /\ ~IndexMissing(rules, last.path, ".value") /\ Len(db["u"].docs) > 0
    /\ last.out = "InvalidQuery"

\* a valid bucket-level query ordered by a field name
FieldQuery(path, q) ==
    /\ Len(path) = 1 /\ q.orderBy \notin {NoKey, "$key", "$value"}
    /\ ~InvalidQuery(q)

\* the rule of the scope contains the name f: it is the rule's indexOn string,
\* an element of its list or a key of its mapping
Contains(rl, scope, f) ==
    /\ check_index(rl, scope) # Null
    /\ LET index_ == check_index(rl, scope)
       IN CASE index_.t = "str" -> index_.s = f
            [] index_.t = "list" -> \E i \in DOMAIN index_.l : index_.l[i] = Str(f)
            [] index_.t = "dict" -> f \in DOMAIN index_.m

\* a bucket-level query ordered by f fails with IndexNotDefined where the rule
\* of the bucket's scope does not contain f, and succeeds where it does
Gated ==
    (last.op = "get" /\ FieldQuery(last.path, last.q)) =>
        IF Contains(rules, <<last.path[1]>>, last.q.orderBy)
        THEN last.out = "ok" ELSE last.out = "IndexNotDefined"

\* a rule keeps containing f across every step that is not a set_index or
\* delete_index on its scope
RuleKept ==
    \A scope \in Scopes : \A f \in {"a", "b"} :
        (/\ Contains(rules, scope, f)
         /\ ~(last'.op \in {"set_index", "delete_index"} /\ last'.path = scope))
            => Contains(rules', scope, f)

\* C19: index gating over time: a bucket-level query ordered by field name f
\* fails with IndexNotDefined in every state where no rule of the bucket's scope
\* contains f and succeeds in every state where one does, and a rule that
\* contains f keeps containing it until a delete_index or set_index on that scope.
C19_IndexGating == [](Gated) /\ [][RuleKept]_vars

\* the scope whose rule gates a query of the path: the whole store or the path
ScopeOf(path) == IF path = <<>> THEN RootScope ELSE path

\* C20: ordering by value always requires the by-value marker: every valid
\* query ordered by value whose scope has no rule containing ".value" fails
\* with IndexNotDefined, on the whole store, a bucket and a record sub-value,
\* whether or not the addressed data exists.
C20_ByValueNeedsMarker ==
    (/\ last.op = "get" /\ last.q.orderBy = "$value" /\ ~InvalidQuery(last.q)
     /\ ~Contains(rules, ScopeOf(last.path), ".value"))
        => last.out = "IndexNotDefined"

\* the registry is the same before and after every step that is not a
\* set_index or a delete_index
RegistryFrame == last'.op \notin {"set_index", "delete_index"} => rules' = rules

\* C21: index rules change only through index management: no data operation
\* (create, replace, merge, delete at any path, the whole-store delete, any
\* query) creates, modifies or removes a rule.
C21_RulesOnlyByIndexOps == [][RegistryFrame]_vars

\* what the last index operation left: set_index(scope, spec) stores spec for
\* the scope, under "__root__" when the scope was left unspecified, and
\* delete_index(scope) leaves the scope without a rule
IndexOpDone ==
    /\ last.op = "set_index" =>
           /\ check_index(rules, last.path) = last.data
           /\ \E i \in DOMAIN rules : rules[i] = Rule(ScopeArg(last.path), last.data)
           /\ last.path = NoScope => check_index(rules, RootScope) = last.data
    /\ last.op = "delete_index" => check_index(rules, last.path) = Null

\* check_index(scope) gives the same answer across every step that is not a
\* set_index or delete_index on that scope
IndexKept ==
    \A scope \in Scopes :
        ~(last'.op \in {"set_index", "delete_index"} /\ last'.path = scope)
            => check_index(rules', scope) = check_index(rules, scope)

\* C22: index registry round trip: after set_index(scope, spec), check_index(scope)
\* returns spec until the next set_index or delete_index on that scope; after
\* delete_index(scope) it returns None; the rules of other scopes are unaffected;
\* an unspecified scope is "__root__".
C22_IndexRoundTrip == [](IndexOpDone) /\ [][IndexKept]_vars

\* C23: delete_index(scope) on a scope with no stored rule fails with NotFound,
\* an error outcome, and leaves the registry unchanged.
C23_DeleteIndexNotFound ==
    [][(last'.op = "delete_index" /\ check_index(rules, last'.path) = Null)
           => (last'.out = "NotFound" /\ rules' = rules)]_vars

-----------------------------------------------------------------------------
(* Properties of the children of a sub-value under a query (SpecChildren). *)

\* the value order null < boolean (false < true) < number < string < sequence
\* < mapping; numbers compare numerically, strings lexicographically
ValRank(v) ==
    CASE v.t = "null" -> 0 [] v.t = "bool" -> 1 [] v.t = "num" -> 2
      [] v.t = "str" -> 3 [] v.t = "list" -> 4 [] v.t = "dict" -> 5

ValueLess(v, w) ==
    \/ ValRank(v) < ValRank(w)
    \/ /\ v.t = w.t
       /\ CASE v.t = "bool" -> ~v.b /\ w.b
            [] v.t = "num" -> v.n < w.n
            [] v.t = "str" -> LexLess(Code(v.s), Code(w.s))
            [] OTHER -> FALSE

\* C24: order by value is the total order null < boolean (false < true) < number
\* < string < sequence < mapping: order_by_value returns every child, and of two
\* children whose values this order ranks differently the lower one comes first;
\* in particular a child of value false precedes a child of value true.
C24_ValueOrder ==
    (last.op = "order_by_value" /\ last.q.startAt = Null /\ last.q.endAt = Null) =>
        /\ last.out = "ok"
        /\ {last.keys[i] : i \in DOMAIN last.keys} = DOMAIN last.data.m
        /\ \A i, j \in DOMAIN last.keys :
               i < j => ~ValueLess(last.data.m[last.keys[j]], last.data.m[last.keys[i]])

\* s <= v <= e in the value order (an unset bound leaves its side open), and
\* v equals x when equalTo = x is set
ValueLeq(v, w) == v = w \/ ValueLess(v, w)
Selected(v, q) ==
    /\ q.startAt = Null \/ ValueLeq(q.startAt, v)
    /\ q.endAt = Null \/ ValueLeq(v, q.endAt)
    /\ q.equalTo = Null \/ v = q.equalTo

\* C25: by-value range and equality filters use the value order of the sort: a
\* by-value query of a mapping or sequence with startAt = s, endAt = e, equalTo
\* = x succeeds and returns exactly the children whose value v satisfies
\* s <= v <= e in the value order (numbers numerically) and v = x.
C25_ByValueFilters ==
    (last.op = "by_value" /\ (IsDict(last.data) \/ IsList(last.data))) =>
        /\ last.out = "ok"
        /\ IsDict(last.data) =>
               /\ last.val.t = "dict"
               /\ DOMAIN last.val.m = {k \in DOMAIN last.data.m : Selected(last.data.m[k], last.q)}
               /\ \A k \in DOMAIN last.val.m : last.val.m[k] = last.data.m[k]
        /\ IsList(last.data) =>
               last.val = List(SelectSeq(last.data.l, LAMBDA x : Selected(x, last.q)))

\* the elements of l whose index k, counted from 0 in l, satisfies i <= k <= j
\* (an unset bound leaves its side open)
IndexRange(l, startAt, endAt) ==
    LET keep == {k \in 0..(Len(l) - 1) :
                    /\ startAt = Null \/ startAt.n <= k
                    /\ endAt = Null \/ k <= endAt.n}
    IN SelectSeq([p \in DOMAIN l |-> <<p - 1, l[p]>>], LAMBDA x : x[1] \in keep)

\* C26: by-key rules on a sequence use its numeric indexes: a by-key query of a
\* sub-value that is a sequence with startAt = i and endAt = j succeeds and
\* returns exactly the elements whose original index k satisfies i <= k <= j,
\* and with equalTo = k alone it returns the element at index k, or nothing
\* when k is out of range.
C26_SequenceByKey ==
    (last.op = "by_key" /\ IsList(last.data)) =>
        LET l == last.data.l
            want == IndexRange(l, last.q.startAt, last.q.endAt)
        IN /\ last.q.equalTo = Null =>
                  /\ last.out = "ok"
                  /\ last.val = List([p \in DOMAIN want |-> want[p][2]])
           /\ (last.q.equalTo # Null /\ last.q.startAt = Null /\ last.q.endAt = Null) =>
                  /\ last.out = "ok"
                  /\ last.val = IF last.q.equalTo.n < Len(l)
                                THEN l[last.q.equalTo.n + 1] ELSE Null

\* the path addresses nothing: a bucket without records, or a record or field
\* that does not exist
Missing(d, path) ==
    IF Len(path) = 1 THEN Len(d[path[1]].docs) = 0
    ELSE FindByKey(d[path[1]].docs, path[2], child_components(path)) = 0

\* C27: a query returns null when nothing matches: a successful read of a
\* bucket, record or field that does not exist returns null, and a successful
\* filtered query that matches no candidate returns null, never an empty
\* mapping or sequence, at bucket level and below.
C27_NullWhenNothingMatches ==
    (last.op = "get" /\ last.out = "ok" /\ Len(last.path) >= 1) =>
        /\ Missing(db, last.path) => last.val = Null
        /\ HasFilter(last.q) => last.val \notin {Dict(EmptyMap), List(<<>>)}

\* a valid by-key query of a bucket or of the whole store with a bound that is
\* set and is not a string
KeyBoundNotString(path, q) ==
    /\ Len(path) <= 1 /\ q.orderBy = "$key" /\ ~InvalidQuery(q)
    /\ \/ q.startAt # Null /\ q.startAt.t # "str"
       \/ q.endAt # Null /\ q.endAt.t # "str"

\* C28: a by-key query at bucket or whole-store level whose startAt or endAt is
\* not a string fails with InvalidFilterType and returns no data, whatever the
\* store holds.
C28_KeyBoundsMustBeStrings ==
    (last.op = "get" /\ KeyBoundNotString(last.path, last.q)) =>
        (last.out = "InvalidFilterType" /\ last.val = Null /\ last.keys = <<>>)

\* C28 witness: a by-key query with a string startAt and a numeric endAt on a
\* bucket that holds records
C28_Witness ==
    /\ last.op = "get" /\ last.path = <<"u">> /\ Len(db["u"].docs) > 0
    /\ last.q = P("$key", Str("a"), Num(1), Null, Null, Null)
    /\ last.out = "InvalidFilterType"

-----------------------------------------------------------------------------
(* Frame properties of the write engine (Spec).                            *)

\* a successful replace at a field path of a record that existed before it
FieldPut ==
    /\ PutOk /\ Len(last.path) >= 3
    /\ FindByFmId(last.pre[last.path[1]].docs, last.path[2]) > 0

\* every field beside the addressed path, at every depth of it, reads back at
\* its own path with the value it had before
SiblingsKept(pre, post, path) ==
    \A j \in 3..Len(path) :
        LET pv == Read(pre, SubSeq(path, 1, j - 1)).val
        IN IsDict(pv) =>
               \A g \in DOMAIN pv.m \ {path[j]} :
                   ~HasSlash(g) => Read(post, SubSeq(path, 1, j - 1) \o <<g>>).val = pv.m[g]

\* every other record reads back with the value it had before
OthersKept(pre, post, path) ==
    \A k \in Ids(pre[path[1]].docs) \ {path[2]} :
        Read(post, <<path[1], k>>) = Read(pre, <<path[1], k>>)

\* the bucket read shows every other record, and every top-level field of the
\* record beside the addressed one, as before
ListingKept(pre, post, path) ==
    LET old == Read(pre, <<path[1]>>)
        new == Read(post, <<path[1]>>)
    IN old.out = "ok" =>
           /\ new.out = "ok"
           /\ \A k \in DOMAIN old.val.m \ {path[2]} :
                  k \in DOMAIN new.val.m /\ new.val.m[k] = old.val.m[k]
           /\ IsDict(old.val.m[path[2]]) =>
                  \A g \in DOMAIN old.val.m[path[2]].m \ {path[3]} :
                      /\ IsDict(new.val.m[path[2]])
                      /\ g \in DOMAIN new.val.m[path[2]].m
                      /\ new.val.m[path[2]].m[g] = old.val.m[path[2]].m[g]

\* C29: replace at a field path preserves siblings: after a successful replace
\* at bucket/record/f1/.../fn (n >= 1) of a record that exists, whether or not
\* the target field was present, every other field of the record and every
\* other record of the bucket reads back with its previous value.
C29_FieldReplacePreservesSiblings ==
    FieldPut =>
        /\ SiblingsKept(last.pre, db, last.path)
        /\ OthersKept(last.pre, db, last.path)
        /\ ListingKept(last.pre, db, last.path)

\* a delete of a whole record that completed
RecordDelete == last.op = "delete" /\ last.out = "ok" /\ Len(last.path) = 2

\* no read shows the record: neither its own path nor the listing of its bucket
RecordAbsent(d, path) ==
    /\ Read(d, path).val = Null
    /\ LET all == Read(d, <<path[1]>>)
       IN (all.out = "ok" /\ IsDict(all.val)) => path[2] \notin DOMAIN all.val.m

\* the whole-store read has no entry for the bucket
BucketGone(d, rl, b) ==
    LET r == Query(d, rl, <<>>, NoParams)
    IN ~(IsDict(r.val) /\ b \in DOMAIN r.val.m)

\* C30: delete of a whole record cleans up structurally without touching
\* siblings: after delete(bucket/record) completes, the record is absent, all
\* other records of the bucket are unchanged, and if it was the last record of
\* the bucket the bucket is dropped and is not in a whole-store read.
C30_RecordDeleteCleansUp ==
    RecordDelete =>
        /\ RecordAbsent(db, last.path)
        /\ OthersKept(last.pre, db, last.path)
        /\ Ids(last.pre[last.path[1]].docs) = {last.path[2]} =>
               (~db[last.path[1]].exists /\ BucketGone(db, rules, last.path[1]))

-----------------------------------------------------------------------------
(* PUT /.json: the whole store replaced by a mapping of buckets.  The      *)
(* payload is the sequence of its (bucket, value) items in payload order.  *)

RECURSIVE put_data_root_v2(_, _, _)
\* for key, val in data.items(): drop, create_index, type check, insert_many
put_data_root_v2(d, items, valid) ==
    IF items = <<>> THEN [db |-> d, out |-> IF valid THEN "ok" ELSE "Exception"]
    ELSE LET b == Head(items)[1]
             val == Head(items)[2]
             d1 == [d EXCEPT ![b] = CreateIndex(Drop(d[b])).c]
         IN IF ~IsDict(val) THEN [db |-> d1, out |-> "InvalidPayload"]
            ELSE IF BucketDocs(val) = <<>> THEN [db |-> d1, out |-> "Exception"]
            ELSE LET r == InsertMany(d1, b, BucketDocs(val), {})
                 IN put_data_root_v2(r.db, Tail(items), valid /\ r.ok)

\* the store of the whole-store requests: two buckets
RootBuckets == {"u", "v"}
RootVals == {One("a", Num(1)), Dict([k \in {"a", "b"} |-> One("b", Num(2))]),
             Num(1), Dict(EmptyMap)}

\* payloads of PUT /.json: no bucket, one bucket, two buckets in either order
RootData ==
    {<<>>} \cup {<< <<b, v>> >> : b \in RootBuckets, v \in RootVals}
           \cup {<< <<"u", v>>, <<"v", w>> >> : v \in RootVals, w \in RootVals}
           \cup {<< <<"v", v>>, <<"u", w>> >> : v \in RootVals, w \in RootVals}

\* the payload as the mapping it is
RootMap(items) ==
    Dict([b \in {items[i][1] : i \in DOMAIN items} |->
             items[CHOOSE i \in DOMAIN items : items[i][1] = b][2]])

InitRoot ==
    /\ db = [b \in RootBuckets |-> NoColl]
    /\ rules = <<>>
    /\ last = [InitLast EXCEPT !.pre = [b \in RootBuckets |-> NoColl]]
    /\ proc = [p \in Procs |-> Idle]
    /\ snap = EmptyDb
    /\ served = 0

PutRoot ==
    \E items \in RootData :
        /\ AllIdle /\ served < MaxOps
        /\ served' = served + 1
        /\ db' = put_data_root_v2(db, items, TRUE).db
        /\ last' = [Record("put_root", <<>>, Null, put_data_root_v2(db, items, TRUE).out)
                       EXCEPT !.keys = items]
        /\ UNCHANGED <<rules, proc, snap>>

\* PUT /{bucket}.json on one of the two buckets
PutBucket ==
    \E b \in RootBuckets : \E data \in {Num(1), One("b", Num(2))} :
        Serve(Begin("put", <<b>>, data, NoKey))

\* GET /.json
GetRoot ==
    \E q \in {NoParams, P("$key", Null, Null, Null, Num(1), Null),
              P("$key", Null, Null, Null, Num(0), Null),
              P("$key", Null, Null, Null, Null, Num(1))} :
        /\ AllIdle /\ served < MaxOps
        /\ served' = served + 1
        /\ last' = [InitLast EXCEPT !.op = "get", !.path = <<>>, !.q = q, !.pre = db,
                                    !.out = Query(db, rules, <<>>, q).out,
                                    !.val = Query(db, rules, <<>>, q).val,
                                    !.keys = Query(db, rules, <<>>, q).keys]
        /\ UNCHANGED <<db, rules, proc, snap>>

NextRoot == PutRoot \/ PutBucket \/ DeleteRoot \/ GetRoot

SpecRoot == InitRoot /\ [][NextRoot]_vars

-----------------------------------------------------------------------------
(* Properties of the whole-store replace (SpecRoot).                       *)

\* a whole-store replace that completed; last.keys holds its payload items
RootPutOk == last.op = "put_root" /\ last.out = "ok"

\* C31: round trip at the root: after replace(root, m) with a mapping m of
\* buckets completes, a whole-store read with no query parameters returns
\* exactly m; buckets that existed before and are not keys of m are not returned.
C31_RootRoundTrip ==
    RootPutOk =>
        /\ Query(db, rules, <<>>, NoParams).out = "ok"
        /\ Query(db, rules, <<>>, NoParams).val = RootMap(last.keys)

\* the records of a collection: its (id, value) pairs
Recs(c) == {<<c.docs[i]._fm_id, c.docs[i]._fm_val>> : i \in DOMAIN c.docs}

\* a replace of a bucket or of the whole store that was rejected with InvalidPayload
Rejected == last.op \in {"put", "put_root"} /\ last.out = "InvalidPayload"

\* C32: a replace rejected with InvalidPayload leaves the store unchanged:
\* when replace(bucket, v) is rejected for a scalar v, or replace(root, m) is
\* rejected for a bucket value of m that is not a mapping, every bucket holds
\* exactly the records it held before the call.
C32_RejectedReplaceKeepsStore ==
    Rejected => \A b \in DOMAIN db : Recs(db[b]) = Recs(last.pre[b])

-----------------------------------------------------------------------------
(* Properties of merges whose keys hold path separators (Spec).            *)

\* a merge of {"a/b": v} that completed
SlashMerge == last.op = "patch" /\ last.out = "ok" /\ last.data = One("a/b", Num(2))

RECURSIVE HasLiteral(_, _)
\* some mapping inside the value v has the key k
HasLiteral(v, k) ==
    IF IsDict(v) THEN k \in DOMAIN v.m \/ \E g \in DOMAIN v.m : HasLiteral(v.m[g], k)
    ELSE IF IsList(v) THEN \E i \in DOMAIN v.l : HasLiteral(v.l[i], k)
    ELSE FALSE

\* the key k is stored nowhere: neither as a record id nor inside a record
NoLiteral(d, k) ==
    \A b \in DOMAIN d : \A i \in DOMAIN d[b].docs :
        d[b].docs[i]._fm_id # k /\ ~HasLiteral(d[b].docs[i]._fm_val, k)

\* C33: a merge key containing path separators is a relative sub-path: for
\* every path of any depth, whether or not the addressed record exists before,
\* after merge(path, {"x/y": v}) completes on a store that held no literal key
\* "x/y", read(path/x/y) returns v and no child with the literal key "x/y" is
\* stored.
C33_SlashKeyIsSubPath ==
    (SlashMerge /\ NoLiteral(last.pre, "a/b")) =>
        /\ Read(db, last.path \o <<"a", "b">>).val = Num(2)
        /\ NoLiteral(db, "a/b")

\* the stored value of record k of bucket u after merge(u, data) served alone on d
MergedRecord(d, data, k) == Read(Run(d, Begin("patch", <<"u">>, data, NoKey)).db, <<"u", k>>).val

MergeOk(d, data) == Run(d, Begin("patch", <<"u">>, data, NoKey)).st.out = "ok"

\* the payload {k: w} and the payload {k: w, "c/b": z}
PlainOnly(k) == One(k, One("b", Num(2)))
PlainAndPath(k) == Dict([g \in {k, "c/b"} |-> IF g = k THEN One("b", Num(2)) ELSE Num(1)])

\* C34: in a bucket-level merge the effect of a plain key does not depend on
\* the other keys of the payload: for an existing record k and a mapping w, the
\* stored value of k after merge(bucket, {k: w}) equals its stored value after
\* merge(bucket, {k: w, "other/sub": z}).
C34_PlainKeyIndependent ==
    \A k \in {"a", "b"} :
        (/\ FindByFmId(db["u"].docs, k) > 0
         /\ MergeOk(db, PlainOnly(k)) /\ MergeOk(db, PlainAndPath(k))) =>
            MergedRecord(db, PlainOnly(k), k) = MergedRecord(db, PlainAndPath(k), k)

-----------------------------------------------------------------------------
(* Properties of a delete interleaved with a writer (SpecConc).            *)

\* the id of the record the request st writes: the generated name of a create
\* at bucket level, the record segment of a replace below bucket level
Written(st) ==
    IF st.op = "post" /\ Len(st.path) = 1 /\ st.data # Null THEN st.name
    ELSE IF st.op = "put" /\ Len(st.path) = 2 THEN st.path[2]
    ELSE NoKey

\* C35: delete's bucket cleanup never destroys another writer's record: once
\* delete(bucket/r1...) and a concurrent create or replace of another record r2
\* of the same bucket have both ended and the writer reported success, r2 is
\* present in the bucket.
C35_CleanupKeepsOtherRecord ==
    \A p, r \in Procs :
        (/\ BothDone
         /\ proc[p].op = "delete" /\ Len(proc[p].path) >= 2
         /\ proc[r].out = "ok" /\ Written(proc[r]) \notin {NoKey, proc[p].path[2]})
            => FindByFmId(db["u"].docs, Written(proc[r])) > 0

-----------------------------------------------------------------------------
(* The index registry, one store call at a time: two requests in flight.   *)
(* A rule document is [_id, path, indexOn]; __fm_rules__ has no unique     *)
(* index.                                                                  *)

RuleDoc(oid, path, index_on) == [_id |-> oid, path |-> path, indexOn |-> index_on]

\* a fresh ObjectId of __fm_rules__
NewRuleOid(rl, held) == Least(held \cup {rl[i]._id : i \in DOMAIN rl}, 0)

\* find_one({"_id": oid, "path": path}); path = NoScope when the filter is {"_id": oid}
FindRuleByOid(rl, oid, path) ==
    FirstIdx({i \in DOMAIN rl : rl[i]._id = oid /\ (path = NoScope \/ rl[i].path = path)})

\* one store call of PUT /set-index: find_one, then update_one with upsert, or
\* insert_one and the find_one that validates it
set_index_step(rl, st, held) ==
    LET path == ScopeArg(st.path)
    IN CASE st.pc = "start" ->
              LET i == FindRule(rl, path)
              IN IF i > 0 THEN [rules |-> rl, st |-> [st EXCEPT !.pc = "update_one", !.oid = rl[i]._id]]
                 ELSE [rules |-> rl, st |-> Goto(st, "insert_one")]
         [] st.pc = "update_one" ->
              LET i == FindRuleByOid(rl, st.oid, path)
              IN [rules |-> IF i > 0 THEN [rl EXCEPT ![i].indexOn = st.data]
                            ELSE Append(rl, RuleDoc(st.oid, path, st.data)),
                  st |-> Finish(st, "ok")]
         [] st.pc = "insert_one" ->
              LET oid == NewRuleOid(rl, held)
              IN [rules |-> Append(rl, RuleDoc(oid, path, st.data)),
                  st |-> [st EXCEPT !.pc = "verify", !.oid = oid]]
         [] st.pc = "verify" ->
              [rules |-> rl,
               st |-> Finish(st, IF FindRuleByOid(rl, st.oid, NoScope) > 0 THEN "ok"
                                 ELSE "StorageFailure")]

\* one store call of DELETE /delete-index: find_one, then delete_one by _id
delete_index_step(rl, st) ==
    LET path == ScopeArg(st.path)
    IN CASE st.pc = "start" ->
              LET i == FindRule(rl, path)
              IN IF i > 0 THEN [rules |-> rl, st |-> [st EXCEPT !.pc = "delete_one", !.oid = rl[i]._id]]
                 ELSE [rules |-> rl, st |-> Finish(st, "NoContent")]
         [] st.pc = "delete_one" ->
              [rules |-> SelectSeq(rl, LAMBDA x : x._id # st.oid), st |-> Finish(st, "ok")]

IndexStep(rl, st, held) ==
    IF st.op = "set_index" THEN set_index_step(rl, st, held) ELSE delete_index_step(rl, st)

RECURSIVE IndexRun(_, _)
\* a registry request run to completion with nothing interleaved
IndexRun(rl, st) ==
    IF st.pc = "done" THEN [rules |-> rl, st |-> st]
    ELSE IndexRun(IndexStep(rl, st, {}).rules, IndexStep(rl, st, {}).st)

IndexScopes == {<<"u">>, NoScope}

IndexReqs ==
    {Begin("set_index", scope, index_on, NoKey) : scope \in IndexScopes, index_on \in IndexSpecs}
        \cup {Begin("delete_index", scope, Null, NoKey) : scope \in IndexScopes}

\* a registry request served alone
IndexServe ==
    \E st \in IndexReqs :
        /\ AllIdle /\ served < MaxOps
        /\ served' = served + 1
        /\ rules' = IndexRun(rules, st).rules
        /\ last' = Record(st.op, st.path, st.data, IndexRun(rules, st).st.out)
        /\ UNCHANGED <<db, proc, snap>>

StartIndexPair ==
    \E r1 \in IndexReqs : \E r2 \in IndexReqs :
        /\ AllIdle
        /\ served + 2 <= MaxOps
        /\ served' = served + 2
        /\ proc' = [p \in Procs |-> IF p = "p1" THEN r1 ELSE r2]
        /\ last' = InitLast
        /\ UNCHANGED <<db, rules, snap>>

IndexProcStep(p) ==
    /\ Running(p)
    /\ rules' = IndexStep(rules, proc[p], Held).rules
    /\ proc' = [proc EXCEPT ![p] = IndexStep(rules, proc[p], Held).st]
    /\ UNCHANGED <<db, last, snap, served>>

NextIndex == IndexServe \/ StartIndexPair \/ (\E p \in Procs : IndexProcStep(p)) \/ EndPair

SpecIndex == Init /\ [][NextIndex]_vars

\* the rule documents of a scope
RulesOf(rl, scope) == {i \in DOMAIN rl : rl[i].path = ScopeArg(scope)}

\* C36: at most one IndexRule exists per scope: in every state reachable by any
\* interleaving of setIndex and deleteIndex calls, two concurrent setIndex
\* calls for a scope with no rule included, the registry holds at most one
\* rule document for each scope, and a deleteIndex(scope) that completed alone
\* leaves getIndex(scope) returning None.
C36_OneRulePerScope ==
    /\ \A scope \in IndexScopes : Cardinality(RulesOf(rules, scope)) <= 1
    /\ (last.op = "delete_index" /\ last.out = "ok") => check_index(rules, last.path) = Null

-----------------------------------------------------------------------------
(* Properties of combined filters, limits and index gating (SpecQuery).    *)

\* a bucket-level by-key query with a range and equalTo together that succeeded
RangeAndEqual ==
    /\ last.op = "get" /\ Len(last.path) = 1 /\ last.out = "ok"
    /\ last.q.orderBy = "$key" /\ last.q.equalTo # Null
    /\ (last.q.startAt # Null \/ last.q.endAt # Null)

\* C37: in a bucket-level by-key query that sets a range and equalTo together,
\* every returned record satisfies all supplied filters: its id equals equalTo
\* and lies within [startAt, endAt]; a falsy equalTo ("" or 0) is still applied.
C37_RangeAndEqualBothApply ==
    RangeAndEqual =>
        \A i \in DOMAIN last.keys :
            /\ last.keys[i] = StrOf(last.q.equalTo)
            /\ InRange(Str(last.keys[i]), last.q.startAt, last.q.endAt)

\* the number of entries of a response value
Entries(v) ==
    IF IsDict(v) THEN Cardinality(DOMAIN v.m)
    ELSE IF IsList(v) THEN Len(v.l)
    ELSE IF v = Null THEN 0 ELSE 1

\* the n of a query with limitToFirst = n or limitToLast = n
LimitOf(q) == IF q.limitToFirst # Null THEN q.limitToFirst.n ELSE q.limitToLast.n

\* C38: a limit is an upper bound for every n >= 0: a query with
\* limitToFirst = n or limitToLast = n that succeeds never returns more than n
\* entries, at whole-store, bucket and record level; n = 0 returns no entries.
C38_LimitIsUpperBound ==
    (last.op = "get" /\ last.out = "ok" /\ HasLimit(last.q)) =>
        Entries(last.val) <= LimitOf(last.q)

\* a valid query ordered by a field name, of the whole store or of a bucket,
\* that was not refused with IndexNotDefined
PassedGate ==
    /\ last.op = "get" /\ Len(last.path) <= 1
    /\ last.q.orderBy \notin {NoKey, "$key", "$value"}
    /\ ~InvalidQuery(last.q)
    /\ last.out # "IndexNotDefined"

\* C39: index gating is by exact field name: a query ordered by field name f
\* passes the index check only if f is exactly one of the orderable fields
\* declared for the scope; a rule stored as a single string does not admit a
\* field whose name is merely a substring of it.
C39_GateByExactName ==
    PassedGate =>
        Contains(rules, IF last.path = <<>> THEN NoScope ELSE last.path, last.q.orderBy)

====
